---- MODULE Spec2Model ----
(***************************************************************************)
(* A model of wrash, a restricted interactive wrapper shell:               *)
(*   - the expansion engine of src/argv/expand.rs (tilde, variable, word   *)
(*     splitting, filename and quote expansion, composed by expand);       *)
(*   - get_common_prefix and the word-boundary helpers of src/session.rs;  *)
(*   - the key loop of Session::take_input.                                *)
(*                                                                         *)
(* A Rust String is modelled as a sequence of characters, each character a *)
(* TLA+ string.  Rust indexes and slices a String by BYTE offset, while    *)
(* chars().enumerate() counts characters: the model keeps the two apart by *)
(* giving every character its UTF-8 width (Width), and a slice whose       *)
(* bounds are out of order, out of range or inside a character panics, as  *)
(* it does in Rust.                                                        *)
(***************************************************************************)
EXTENDS Integers, Sequences, FiniteSets, TLC

VARIABLES
    \* ---- expand(source): src/argv/expand.rs
    source,       \* the raw line handed to expand
    home,         \* what the home-directory provider returns (NoHome: None)
    envA,         \* the value of the environment variable A ("" when unset)
    stage,        \* the step of expand that runs next
    tilde,        \* result of expand_tilde
    variable,     \* result of expand_vars
    words,        \* result of split_words
    filenames,    \* result of expand_filenames
    glob,         \* what glob::glob returns for each pattern among words
    result,       \* what expand returns (None while it runs)
    \* ---- get_common_prefix(values): src/session.rs
    values,       \* the candidate list
    common,       \* the returned Option<String>
    \* ---- Session: src/session.rs
    history,      \* Session.history: the entries, oldest first
    is_frozen,    \* Session.is_frozen
    base,         \* Session.base
    mode,         \* Session.mode
    files,        \* the names the filesystem offers to completion, in glob's order
    \* ---- Session::take_input
    status,       \* "idle", "reading" (in the key loop), "returned", "failed"
                  \* (returned an io::Error) or "panicked"
    buffer,       \* the line buffer
    offset,       \* the cursor, a byte offset into buffer
    history_entries,       \* the filtered view of history, newest first
    history_offset,        \* the recall index, None outside recall
    buffer_bak,            \* the buffer as it was before recall
    was_tab_previous_key,
    listed,       \* the candidates the last key wrote to the terminal
    line,         \* what take_input returned
    raw_mode,     \* the terminal is in raw mode
    key_dropped,  \* the last event of stdin.keys() was an Err that
                  \* filter_map(Result::ok) discarded
    \* ---- builtins::history: src/builtins.rs
    matches,      \* the parsed arguments of the call
    out_writer,   \* the lines written to out_writer
    err_writer,   \* the messages written to err_writer
    returned,     \* the BuiltinResult of the call
    \* ---- History: src/history.rs
    store,        \* "none" (no Session yet), "open" or "dropped"
    path,         \* History.path
    disk,         \* the filesystem at the history path: whether the parent
                  \* directory exists, and the content of the file if it exists
    iter,         \* a HistoryIterator and what it has yielded, Idle without one
    call          \* the last call on the session and what it returned

expandVars == <<source, home, envA, stage, tilde, variable, words, filenames, glob, result>>
prefixVars == <<values, common>>
sessionVars == <<history, is_frozen, base, mode, files>>
inputVars == <<status, buffer, offset, history_entries, history_offset, buffer_bak,
               was_tab_previous_key, listed, line, raw_mode, key_dropped>>
builtinVars == <<matches, out_writer, err_writer, returned>>
storeVars == <<store, path, disk, iter, call>>
vars == <<expandVars, prefixVars, sessionVars, inputVars, builtinVars, storeVars>>

-----------------------------------------------------------------------------
(* Bounds of the model *)

\* longest source line handed to expand
MaxSourceLen == 4
\* longest source line with variable references handed to expand
MaxVarSourceLen == 5

-----------------------------------------------------------------------------
(* Strings *)

\* the one two-byte character of the model's alphabets (U+00E9)
EAcute == "eacute"

\* UTF-8 width of a character
Width(c) == IF c = EAcute THEN 2 ELSE 1

\* String::len(): the length in bytes
RECURSIVE ByteLen(_)
ByteLen(s) == IF s = <<>> THEN 0 ELSE Width(Head(s)) + ByteLen(Tail(s))

\* byte offset at which the character with (0-based) index k starts
ByteOff(s, k) == ByteLen(SubSeq(s, 1, k))

\* str::is_char_boundary
IsCharBoundary(s, b) == \E k \in 0..Len(s) : ByteOff(s, k) = b

\* number of characters that lie before the char boundary b
CharsBefore(s, b) == CHOOSE k \in 0..Len(s) : ByteOff(s, k) = b

\* outcomes of a call
Panic == [tag |-> "Panic"]
None == [tag |-> "None"]
Ok(v) == [tag |-> "Ok", val |-> v]
Some(v) == [tag |-> "Some", val |-> v]
Err(kind, c) == [tag |-> "Err", kind |-> kind, ch |-> c]

\* &s[a..b]: panics unless a <= b <= len and both lie on char boundaries
Slice(s, a, b) ==
    IF a <= b /\ IsCharBoundary(s, a) /\ IsCharBoundary(s, b)
    THEN Ok(SubSeq(s, CharsBefore(s, a) + 1, CharsBefore(s, b)))
    ELSE Panic

\* &s[a..]
SliceFrom(s, a) == Slice(s, a, ByteLen(s))

\* str::find: byte offset of the first of the characters of s that match
\* (hits holds their indices), -1 for None
FindByte(s, hits) ==
    IF hits = {} THEN -1
    ELSE ByteOff(s, (CHOOSE k \in hits : \A j \in hits : k <= j) - 1)

\* char::is_alphanumeric on the model's characters
IsAlphanumeric(c) == c \in {"a", "b", "c", "A", "x", "y", EAcute}

\* all strings over an alphabet up to a length
Strs(alphabet, n) == UNION {[1..m -> alphabet] : m \in 0..n}

Range(s) == {s[k] : k \in 1..Len(s)}

-----------------------------------------------------------------------------
(* src/argv/mod.rs *)

\* the while loop of find_with_previous: k is the index of `current`
RECURSIVE FindWithPreviousLoop(_, _, _)
FindWithPreviousLoop(s, k, q) ==
    IF k > Len(s) THEN 0
    ELSE IF s[k - 1] # "\\" /\ s[k] = q THEN k
    ELSE FindWithPreviousLoop(s, k + 1, q)

\* find_with_previous(&mut chars, |o| previous is not a backslash,
\* |current| current == q) on an iterator whose next item has (1-based) index
\* `from`: the index of the item found, 0 for None (the iterator is then
\* exhausted).  The first item has no previous one and f(None) is true.
FindWithPrevious(s, from, q) ==
    IF from > Len(s) THEN 0
    ELSE IF s[from] = q THEN from
    ELSE FindWithPreviousLoop(s, from + 1, q)

-----------------------------------------------------------------------------
(* src/argv/expand.rs *)

NoHome == None

\* the while loop of expand_tilde; k is the index of the next character,
\* homeText the text a tilde is replaced with
RECURSIVE ExpandTildeLoop(_, _, _, _)
ExpandTildeLoop(src, k, expanded, homeText) ==
    IF k > Len(src) THEN Ok(expanded)
    ELSE LET c == src[k] IN
         IF c \in {"'", "\""} THEN
             LET end == FindWithPrevious(src, k + 1, c) IN
             IF end = 0 THEN Err("UnterminatedSequence", c)
             ELSE LET span == Slice(src, k - 1, end) IN
                  IF span = Panic THEN Panic
                  ELSE ExpandTildeLoop(src, end + 1, expanded \o span.val, homeText)
         ELSE IF c = "\\" THEN
             IF k + 1 > Len(src) THEN Err("UnterminatedSequence", "\\")
             ELSE IF src[k + 1] = "~"
                  THEN ExpandTildeLoop(src, k + 2, expanded \o <<"~">>, homeText)
                  ELSE ExpandTildeLoop(src, k + 2, expanded \o <<"\\", src[k + 1]>>, homeText)
         ELSE IF c = "~" THEN ExpandTildeLoop(src, k + 1, expanded \o homeText, homeText)
         ELSE ExpandTildeLoop(src, k + 1, Append(expanded, c), homeText)

\* expand_tilde(source, provider)
ExpandTilde(src, provider) ==
    IF "~" \notin Range(src) THEN Ok(src)
    ELSE ExpandTildeLoop(src, 1, <<>>,
                         IF provider = NoHome THEN <<"~">> ELSE provider.val)

\* a faulty lookup that finds no variable set; the properties of variable
\* expansion must tell it from env::var
EnvVarUnset(name, valueOfA) == <<>>

\* env::var(name).unwrap_or_else(|_| String::new()): A is the one variable
\* that may be set
EnvVar(name, valueOfA) == IF name = <<"A">> THEN valueOfA ELSE <<>>

\* the outcome of expand_vars: the expanded text and, in call order, the
\* names handed to env::var
OkVars(text, names) == [tag |-> "Ok", val |-> text, names |-> names]

\* the `$` arm of expand_vars up to the computation of (name, next), with
\* i the character index of the `$`: Panic, an Err, or [name, next]
VarReference(src, i) ==
    IF i + 1 = Len(src) THEN Err("UnterminatedSequence", "$")
    ELSE LET rest == SliceFrom(src, i + 1) IN
         IF rest = Panic THEN Panic
         ELSE IF src[i + 2] = "{" THEN
             LET n == FindByte(rest.val, {k \in 1..Len(rest.val) : rest.val[k] = "}"}) IN
             IF n = -1 THEN Err("UnterminatedSequence", "{")
             ELSE LET name == Slice(src, i + 2, i + n + 1) IN
                  IF name = Panic THEN Panic
                  ELSE [tag |-> "Ref", name |-> name.val, next |-> i + n + 2]
         ELSE
             LET n == FindByte(rest.val, {k \in 1..Len(rest.val) :
                                             ~IsAlphanumeric(rest.val[k]) /\ rest.val[k] # "_"}) IN
             IF n # -1
             THEN LET name == Slice(src, i + 1, i + n + 1) IN
                  IF name = Panic THEN Panic
                  ELSE [tag |-> "Ref", name |-> name.val, next |-> i + n + 1]
             ELSE [tag |-> "Ref", name |-> rest.val, next |-> ByteLen(src)]

\* index of the character after the item chars.find(|c| c == q) stops at
\* (past the end when there is none), for an iterator whose next item is k
FindChar(s, k, q) ==
    LET hits == {j \in k..Len(s) : s[j] = q}
    IN  IF hits = {} THEN Len(s) + 1
        ELSE (CHOOSE j \in hits : \A h \in hits : j <= h) + 1

\* the while loop of expand_vars and the code after it; k is the index of
\* the next character, last the byte offset up to which source is consumed
RECURSIVE ExpandVarsLoop(_, _, _, _, _, _)
ExpandVarsLoop(src, k, expanded, last, names, valueOfA) ==
    IF k > Len(src) THEN
        IF last < ByteLen(src)
        THEN LET tail == SliceFrom(src, last) IN
             IF tail = Panic THEN Panic ELSE OkVars(expanded \o tail.val, names)
        ELSE OkVars(expanded, names)
    ELSE LET c == src[k]
             i == k - 1
         IN
         IF c = "$" THEN
             LET before == IF i # 0 THEN Slice(src, last, i) ELSE Ok(<<>>) IN
             IF before = Panic THEN Panic
             ELSE LET ref == VarReference(src, i) IN
                  IF ref.tag # "Ref" THEN ref
                  ELSE ExpandVarsLoop(src, k + 1,
                                      expanded \o before.val \o EnvVar(ref.name, valueOfA),
                                      ref.next, Append(names, ref.name), valueOfA)
         ELSE IF c = "'" THEN
             ExpandVarsLoop(src, FindChar(src, k + 1, "'"), expanded, last, names, valueOfA)
         ELSE ExpandVarsLoop(src, k + 1, expanded, last, names, valueOfA)

\* expand_vars(source)
ExpandVars(src, valueOfA) == ExpandVarsLoop(src, 1, <<>>, 0, <<>>, valueOfA)

\* the while loop of split_words and the code after it
RECURSIVE SplitWordsLoop(_, _, _, _)
SplitWordsLoop(src, k, acc, last) ==
    IF k > Len(src) THEN
        IF last < ByteLen(src)
        THEN LET tail == SliceFrom(src, last) IN
             IF tail = Panic THEN Panic ELSE Ok(Append(acc, tail.val))
        ELSE Ok(acc)
    ELSE LET c == src[k]
             i == k - 1
         IN
         IF c \in {" ", "\t"} THEN
             IF last = i THEN SplitWordsLoop(src, k + 1, acc, last + 1)
             ELSE LET word == Slice(src, last, i) IN
                  IF word = Panic THEN Panic
                  ELSE SplitWordsLoop(src, k + 1, Append(acc, word.val), i + 1)
         ELSE IF c \in {"'", "\""} THEN
             LET end == FindWithPrevious(src, k + 1, c) IN
             SplitWordsLoop(src, IF end = 0 THEN Len(src) + 1 ELSE end + 1, acc, last)
         ELSE IF c = "\\" THEN SplitWordsLoop(src, k + 2, acc, last)
         ELSE SplitWordsLoop(src, k + 1, acc, last)

\* split_words(source): the word list, or Panic
SplitWords(src) == SplitWordsLoop(src, 1, <<>>, 0)

\* is_pattern(s)
RECURSIVE IsPatternFrom(_, _)
IsPatternFrom(s, k) ==
    IF k > Len(s) THEN FALSE
    ELSE IF s[k] \in {"?", "*", "["} THEN TRUE
    ELSE IF s[k] = "\\" THEN IsPatternFrom(s, k + 2)
    ELSE IsPatternFrom(s, k + 1)

\* a faulty is_pattern that takes every word for a pattern; the properties of
\* filename expansion must tell it from is_pattern
IsPatternAlways(s) == TRUE

IsPattern(s) == IsPatternFrom(s, 1)

\* s holds n consecutive `*`
HasStars(s, n) == \E k \in 1..(Len(s) - n + 1) : \A j \in k..(k + n - 1) : s[j] = "*"

\* What glob::glob(arg) can return for a pattern: Err(PatternError), or the
\* paths it matched (possibly none).  The filesystem is outside the program:
\* the names it holds are f and g.  glob rejects every pattern with three `*`
\* in a row; whether it rejects `**` that is only a part of a path component
\* depends on its version; it accepts every other pattern.
GlobResults(arg) ==
    (IF HasStars(arg, 3) \/ (HasStars(arg, 2) /\ Len(arg) > 2)
     THEN {[ok |-> FALSE, found |-> <<>>]} ELSE {})
    \cup (IF HasStars(arg, 3) THEN {}
          ELSE {[ok |-> TRUE, found |-> m] : m \in {<<>>, <<<<"f">>>>, <<<<"f">>, <<"g">>>>}})

\* the ways glob::glob can answer for the patterns among argv
GlobOracles(argv) ==
    {g \in [{w \in Range(argv) : IsPattern(w)} ->
                [ok : BOOLEAN, found : {<<>>, <<<<"f">>>>, <<<<"f">>, <<"g">>>>}]] :
        \A w \in DOMAIN g : g[w] \in GlobResults(w)}

\* the for loop of expand_filenames; globOf maps each pattern to glob::globOf's
\* result for it
RECURSIVE ExpandFilenamesLoop(_, _, _, _)
ExpandFilenamesLoop(argv, k, expanded, globOf) ==
    IF k > Len(argv) THEN expanded
    ELSE LET arg == argv[k] IN
         IF ~IsPattern(arg) THEN ExpandFilenamesLoop(argv, k + 1, Append(expanded, arg), globOf)
         ELSE IF globOf[arg].ok THEN
             IF globOf[arg].found = <<>>
             THEN ExpandFilenamesLoop(argv, k + 1, Append(expanded, arg), globOf)
             ELSE ExpandFilenamesLoop(argv, k + 1, expanded \o globOf[arg].found, globOf)
         ELSE ExpandFilenamesLoop(argv, k + 1, expanded, globOf)

\* expand_filenames(argv)
ExpandFilenames(argv, globOf) == ExpandFilenamesLoop(argv, 1, <<>>, globOf)

\* the end of the per-word loop of expand_quotes: the word is pushed unless
\* a quoted span is still open
QuotesWordEnd(expanded, is_single_quote, is_double_quote) ==
    IF is_single_quote THEN Err("UnterminatedSequence", "'")
    ELSE IF is_double_quote THEN Err("UnterminatedSequence", "'")
    ELSE Ok(expanded)

\* a set of escapes that also lets a backslash escape a backslash
EscapableCharsAndBackslash == {"\"", "'", " ", "~", "\\"}

\* matches!(c, '"' | '\'' | ' ' | '~'): the characters a backslash may escape
EscapableChars == {"\"", "'", " ", "~"}

\* the while loop over one word's characters in expand_quotes
RECURSIVE ExpandQuotesWord(_, _, _, _, _)
ExpandQuotesWord(word, k, expanded, is_single_quote, is_double_quote) ==
    IF k > Len(word) THEN QuotesWordEnd(expanded, is_single_quote, is_double_quote)
    ELSE LET c == word[k] IN
         IF c = "'" THEN
             IF ~is_double_quote
             THEN ExpandQuotesWord(word, k + 1, expanded, ~is_single_quote, is_double_quote)
             ELSE ExpandQuotesWord(word, k + 1, Append(expanded, c), is_single_quote, is_double_quote)
         ELSE IF c = "\"" THEN
             IF ~is_single_quote
             THEN ExpandQuotesWord(word, k + 1, expanded, is_single_quote, ~is_double_quote)
             ELSE ExpandQuotesWord(word, k + 1, Append(expanded, c), is_single_quote, is_double_quote)
         ELSE IF c = "\\" THEN
             IF k + 1 > Len(word) THEN Err("UnexpectedEndOfLine", "")
             ELSE IF word[k + 1] \in EscapableChars
                  THEN ExpandQuotesWord(word, k + 2, Append(expanded, word[k + 1]),
                                        is_single_quote, is_double_quote)
                  ELSE Err("InvalidEscape", word[k + 1])
         ELSE ExpandQuotesWord(word, k + 1, Append(expanded, c), is_single_quote, is_double_quote)

\* the for loop of expand_quotes: the first word that fails ends the call
RECURSIVE ExpandQuotesLoop(_, _, _)
ExpandQuotesLoop(argv, k, acc) ==
    IF k > Len(argv) THEN Ok(acc)
    ELSE LET w == ExpandQuotesWord(argv[k], 1, <<>>, FALSE, FALSE) IN
         IF w.tag = "Ok" THEN ExpandQuotesLoop(argv, k + 1, Append(acc, w.val)) ELSE w

\* expand_quotes(argv)
ExpandQuotes(argv) == ExpandQuotesLoop(argv, 1, <<>>)

-----------------------------------------------------------------------------
(* src/session.rs: get_common_prefix *)

\* str::starts_with
StartsWith(s, p) == Len(p) <= Len(s) /\ SubSeq(s, 1, Len(p)) = p

\* the fold of get_common_prefix: the shortest value, the first one among
\* equally short ones
RECURSIVE ShortestFold(_, _, _)
ShortestFold(vals, k, acc) ==
    IF k > Len(vals) THEN acc
    ELSE ShortestFold(vals, k + 1, IF ByteLen(vals[k]) < ByteLen(acc) THEN vals[k] ELSE acc)

\* the while loop of get_common_prefix and the code after it
RECURSIVE CommonPrefixLoop(_, _, _, _)
CommonPrefixLoop(vals, prefix, prefix_len, is_common) ==
    IF ~is_common /\ prefix_len > 0 THEN
        LET head == Slice(prefix, 0, prefix_len) IN
        IF head = Panic THEN Panic
        ELSE CommonPrefixLoop(vals, prefix, prefix_len - 1,
                              \A k \in 1..Len(vals) : StartsWith(vals[k], head.val))
    ELSE IF prefix_len = 0 THEN None ELSE Some(prefix)

\* get_common_prefix(values): None, Some(prefix), or Panic
GetCommonPrefix(vals) ==
    IF vals = <<>> THEN None
    ELSE LET prefix == ShortestFold(vals, 2, vals[1]) IN
         CommonPrefixLoop(vals, prefix, ByteLen(prefix),
                          \A k \in 1..Len(vals) : StartsWith(vals[k], prefix))

-----------------------------------------------------------------------------
(* expand(source) as a state machine: one action per step of the pipeline. *)
(* A step that fails ends the call: `?` returns its Err, a panic aborts.   *)

Idle == [tag |-> "Idle"]

\* get_common_prefix is not running
PrefixIdle == values = <<>> /\ common = Idle

\* expand is not running
ExpandIdle ==
    /\ source = <<>> /\ home = NoHome /\ envA = <<>> /\ stage = "idle"
    /\ tilde = None /\ variable = None /\ words = None /\ filenames = None
    /\ glob = <<>> /\ result = None

\* no builtin is running
BuiltinIdle ==
    matches = Idle /\ out_writer = <<>> /\ err_writer = <<>> /\ returned = Idle

\* take_input is not running and was not called
InputIdle ==
    /\ status = "idle" /\ buffer = <<>> /\ offset = 0
    /\ history_entries = <<>> /\ history_offset = None /\ buffer_bak = None
    /\ was_tab_previous_key = FALSE
    /\ listed = <<>> /\ line = None
    /\ raw_mode = FALSE /\ key_dropped = FALSE

\* the filesystem without the directory of the history file
NoDisk == [parent |-> FALSE, file |-> None]

\* a Session over History::empty(), with nothing on disk and no call made
StoreInMemory ==
    store = "open" /\ path = None /\ disk = NoDisk /\ iter = Idle /\ call = Idle

\* no session exists
SessionIdle ==
    /\ BuiltinIdle
    /\ history = <<>> /\ is_frozen = FALSE /\ base = <<>> /\ mode = "Wrapped"
    /\ files = <<>>
    /\ InputIdle
    /\ store = "none" /\ path = None /\ disk = NoDisk /\ iter = Idle /\ call = Idle

InitExpand(sources, homes, valuesOfA) ==
    /\ source \in sources
    /\ home \in homes
    /\ envA \in valuesOfA
    /\ stage = "tilde"
    /\ tilde = None
    /\ variable = None
    /\ words = None
    /\ filenames = None
    /\ glob = <<>>
    /\ result = None
    /\ PrefixIdle
    /\ SessionIdle

\* let tilde = expand_tilde(source, || dirs::home_dir()...)?;
StepTilde ==
    /\ stage = "tilde"
    /\ tilde' = ExpandTilde(source, home)
    /\ stage' = IF tilde'.tag = "Ok" THEN "vars" ELSE "done"
    /\ result' = IF tilde'.tag = "Ok" THEN result ELSE tilde'
    /\ UNCHANGED <<source, home, envA, variable, words, filenames, glob, prefixVars, sessionVars, inputVars, builtinVars, storeVars>>

\* let variable = expand_vars(tilde.as_str())?;
StepVars ==
    /\ stage = "vars"
    /\ variable' = ExpandVars(tilde.val, envA)
    /\ stage' = IF variable'.tag = "Ok" THEN "split" ELSE "done"
    /\ result' = IF variable'.tag = "Ok" THEN result ELSE variable'
    /\ UNCHANGED <<source, home, envA, tilde, words, filenames, glob, prefixVars, sessionVars, inputVars, builtinVars, storeVars>>

\* let words = split_words(variable.as_str());
StepSplit ==
    /\ stage = "split"
    /\ words' = SplitWords(variable.val)
    /\ stage' = IF words'.tag = "Ok" THEN "filenames" ELSE "done"
    /\ result' = IF words'.tag = "Ok" THEN result ELSE words'
    /\ UNCHANGED <<source, home, envA, tilde, variable, filenames, glob, prefixVars, sessionVars, inputVars, builtinVars, storeVars>>

\* let filenames = expand_filenames(words);
StepFilenames ==
    /\ stage = "filenames"
    /\ \E g \in GlobOracles(words.val) :
          /\ glob' = g
          /\ filenames' = Ok(ExpandFilenames(words.val, g))
    /\ stage' = "quotes"
    /\ UNCHANGED <<source, home, envA, tilde, variable, words, result, prefixVars, sessionVars, inputVars, builtinVars, storeVars>>

\* let quotes = expand_quotes(filenames)?; Ok(quotes)
StepQuotes ==
    /\ stage = "quotes"
    /\ result' = ExpandQuotes(filenames.val)
    /\ stage' = "done"
    /\ UNCHANGED <<source, home, envA, tilde, variable, words, filenames, glob, prefixVars, sessionVars, inputVars, builtinVars, storeVars>>

NextExpand == StepTilde \/ StepVars \/ StepSplit \/ StepFilenames \/ StepQuotes

\* expand on every line over the characters that matter to its steps
ExpandChars == {"a", " ", "\t", "\\", "'", "\"", "*", "~", "$", EAcute}
HomeDir == <<"h">>
InitExpandAll ==
    /\ InitExpand(Strs(ExpandChars, MaxSourceLen), {NoHome, Some(HomeDir)}, {<<>>})
    /\ ("~" \notin Range(source) => home = NoHome)

ExpandSpec == InitExpandAll /\ [][NextExpand]_vars

\* expand on the lines that hold variable references, with A unset or set to
\* a value with a space and a glob metacharacter in it
VarChars == {"$", "A", "{", "}", "'", "\"", EAcute}
ValueA == <<"x", " ", "*">>
InitExpandVars == InitExpand(Strs(VarChars, MaxVarSourceLen), {NoHome}, {<<>>, ValueA})

VarSpec == InitExpandVars /\ [][NextExpand]_vars

-----------------------------------------------------------------------------
(* src/session.rs: the line editor *)

\* String::remove(idx): panics unless idx is the start of a character
Remove(s, idx) ==
    IF idx < ByteLen(s) /\ IsCharBoundary(s, idx)
    THEN Ok(SubSeq(s, 1, CharsBefore(s, idx)) \o SubSeq(s, CharsBefore(s, idx) + 2, Len(s)))
    ELSE Panic

\* String::insert(idx, c): panics unless idx lies on a char boundary
Insert(s, idx, c) ==
    IF IsCharBoundary(s, idx)
    THEN Ok(SubSeq(s, 1, CharsBefore(s, idx)) \o <<c>> \o SubSeq(s, CharsBefore(s, idx) + 1, Len(s)))
    ELSE Panic

\* String::replace_range(a..b, with): panics unless a <= b and both lie on
\* char boundaries
ReplaceRange(s, a, b, with) ==
    IF a <= b /\ IsCharBoundary(s, a) /\ IsCharBoundary(s, b)
    THEN Ok(SubSeq(s, 1, CharsBefore(s, a)) \o with \o SubSeq(s, CharsBefore(s, b) + 1, Len(s)))
    ELSE Panic

\* the for loop of get_previous_boundary: j is the index of the next
\* character of the reversed iteration
RECURSIVE PreviousBoundaryLoop(_, _, _, _)
PreviousBoundaryLoop(buf, j, initial_is_boundary, position) ==
    IF j < 1 THEN position
    ELSE IF (~initial_is_boundary /\ buf[j] = " ") \/ (initial_is_boundary /\ buf[j] # " ")
         THEN position
         ELSE PreviousBoundaryLoop(buf, j - 1, initial_is_boundary, position - 1)

\* get_previous_boundary(buffer, cursor_offset): Ok(position), or Panic when
\* chars.nth(..) is None and unwrap aborts
GetPreviousBoundary(buf, cursor_offset) ==
    IF cursor_offset = 0 THEN Ok(0)
    ELSE LET n == ByteLen(buf) - cursor_offset IN
         IF n < 0 \/ n >= Len(buf) THEN Panic
         ELSE Ok(PreviousBoundaryLoop(buf, Len(buf) - n - 1, buf[Len(buf) - n] = " ",
                                      cursor_offset - 1))

\* the for loop of get_next_boundary
RECURSIVE NextBoundaryLoop(_, _, _, _)
NextBoundaryLoop(buf, j, initial_is_boundary, position) ==
    IF j > Len(buf) THEN position
    ELSE IF (~initial_is_boundary /\ buf[j] = " ") \/ (initial_is_boundary /\ buf[j] # " ")
         THEN position
         ELSE NextBoundaryLoop(buf, j + 1, initial_is_boundary, position + 1)

\* get_next_boundary(buffer, cursor_offset)
GetNextBoundary(buf, cursor_offset) ==
    IF cursor_offset = ByteLen(buf) THEN Ok(ByteLen(buf))
    ELSE IF cursor_offset >= Len(buf) THEN Panic
    ELSE Ok(NextBoundaryLoop(buf, cursor_offset + 2, buf[cursor_offset + 1] = " ",
                             cursor_offset + 1))

\* get_entries_per_line(padding_length, entry_length, line_length)
GetEntriesPerLine(padding_length, entry_length, line_length) ==
    (line_length + padding_length) \div (entry_length + padding_length)

\* the padding take_input passes to get_entries_per_line
ListPadding == 2

\* HistoryEntry::get_command
GetCommand(entry) ==
    IF entry.base.tag = "Some" THEN entry.base.val \o <<" ">> \o entry.argv ELSE entry.argv

\* a recall that shows the full command of every entry
RecallTextAlwaysCommand(entry) == GetCommand(entry)

\* the text Up and Down put into the buffer for an entry
RecallText(entry) ==
    IF entry.mode = "Wrapped" /\ ~entry.is_builtin THEN entry.argv ELSE GetCommand(entry)

\* a filter that does not look at the base of an entry
IsRecallableAnyBase(entry, sessionMode, sessionBase) ==
    entry.is_builtin \/ entry.mode = sessionMode

\* the filter take_input applies to the history
IsRecallable(entry, sessionMode, sessionBase) ==
    \/ entry.is_builtin
    \/ /\ entry.mode = sessionMode
       /\ (entry.base.tag = "None" \/ entry.base.val = sessionBase)

RECURSIVE SelectSeq2(_, _, _)
SelectSeq2(s, sessionMode, sessionBase) ==
    IF s = <<>> THEN <<>>
    ELSE (IF IsRecallable(Head(s), sessionMode, sessionBase) THEN <<Head(s)>> ELSE <<>>)
         \o SelectSeq2(Tail(s), sessionMode, sessionBase)

Reverse(s) == [k \in 1..Len(s) |-> s[Len(s) + 1 - k]]

\* history.iter().filter(..).rev().collect()
FilteredHistory(entries, sessionMode, sessionBase) ==
    Reverse(SelectSeq2(entries, sessionMode, sessionBase))

-----------------------------------------------------------------------------
(* Bounds and inputs of the editor *)

\* longest buffer (in characters) a typed character or a completion leaves
MaxBufferLen == 2
\* most entries the history holds
MaxHistory == 2

\* the characters the terminal delivers as Key::Char
KeyChars == {"a", " ", EAcute}

\* the terminal widths terminal_size() reports
NarrowTerminal == 1
WideTerminal == 80
TermWidths == {NarrowTerminal, WideTerminal}

SessionBase == <<"a">>
OtherBase == <<"b">>
\* the entries a history file may hold: a wrapped command of this base, a
\* builtin, a wrapped command of another base, and a normal-mode entry that
\* carries a base
SampleEntries ==
    { [argv |-> <<"a">>, base |-> Some(SessionBase), mode |-> "Wrapped", is_builtin |-> FALSE],
      [argv |-> <<" ">>, base |-> None, mode |-> "Normal", is_builtin |-> TRUE],
      [argv |-> <<"a">>, base |-> Some(OtherBase), mode |-> "Wrapped", is_builtin |-> FALSE],
      [argv |-> <<"a">>, base |-> Some(SessionBase), mode |-> "Normal", is_builtin |-> FALSE] }

\* the histories a session starts with: entries in either order
SampleHistories ==
    {h \in Strs(SampleEntries, MaxHistory) : \A i, j \in 1..Len(h) : i # j => h[i] # h[j]}

\* The names the filesystem offers to completion, in the alphabetical order
\* glob yields them.  The filesystem is outside the program.
SampleFilesystems ==
    { << <<"a">>, <<"a", "a">>, <<"a", "b">>, <<"b">> >>,
      << <<"a", "a">>, <<"a", "b">> >> }

\* get_tab_completions(prefix, is_command): the names glob finds for the
\* pattern prefix*
GetTabCompletions(prefix, is_command) ==
    SelectSeq(files, LAMBDA f : StartsWith(f, prefix))

-----------------------------------------------------------------------------
(* Session::take_input as a state machine: one action per key of the loop. *)

\* what the match arm of one key leaves in the locals it may assign
Locals(b, o, ho, bak) ==
    [tag |-> "Ok", buffer |-> b, offset |-> o, history_offset |-> ho, buffer_bak |-> bak]

\* an arm that assigns buffer and offset only
Edited(b, o) == Locals(b, o, history_offset, buffer_bak)

\* a return that leaves the terminal as it is
LeaveRaw(st, ln) ==
    /\ status' = st
    /\ line' = ln
    /\ buffer' = <<>>
    /\ offset' = 0
    /\ history_entries' = <<>>
    /\ history_offset' = None
    /\ buffer_bak' = None
    /\ was_tab_previous_key' = FALSE
    /\ listed' = <<>>
    /\ key_dropped' = FALSE
    /\ UNCHANGED raw_mode

\* take_input is left (a return, or a panic that unwinds it): its locals are
\* dropped, and `ln` is what the caller receives
Leave(st, ln) ==
    /\ status' = st
    /\ line' = ln
    /\ buffer' = <<>>
    /\ offset' = 0
    /\ history_entries' = <<>>
    /\ history_offset' = None
    /\ buffer_bak' = None
    /\ was_tab_previous_key' = FALSE
    /\ listed' = <<>>
    /\ raw_mode' = FALSE          \* the RawTerminal is dropped
    /\ key_dropped' = FALSE

\* One iteration of the key loop whose match arm produced `out` and wrote the
\* candidates `ls`: the arm, the
\* redraw, then was_tab_previous_key = key == Key::Char('\t').  A write or
\* flush that fails makes take_input return the io::Error at once.
Iteration(out, isTab, ls) ==
    /\ status = "reading"
    /\ IF out = Panic
       THEN Leave("panicked", None)
       ELSE \/ /\ status' = "reading"
               /\ buffer' = out.buffer
               /\ offset' = out.offset
               /\ history_offset' = out.history_offset
               /\ buffer_bak' = out.buffer_bak
               /\ was_tab_previous_key' = isTab
               /\ listed' = ls
               /\ key_dropped' = FALSE
               /\ UNCHANGED <<history_entries, line, raw_mode>>
            \/ Leave("failed", Err("io", ""))
    /\ UNCHANGED <<sessionVars, expandVars, prefixVars, builtinVars, storeVars>>

\* a key other than Tab
PlainKey(out) == Iteration(out, FALSE, <<>>)

\* the loop is left by break: stdout.flush()?; Ok(buffer)
Break(b) ==
    /\ status = "reading"
    /\ \/ Leave("returned", Ok(b))
       \/ Leave("failed", Err("io", ""))
    /\ UNCHANGED <<sessionVars, expandVars, prefixVars, builtinVars, storeVars>>

\* take_input up to the key loop
TakeInput ==
    /\ status \in {"idle", "returned", "failed"}
    /\ store = "open" /\ iter = Idle /\ call = Idle /\ returned = Idle
    /\ \/ /\ status' = "reading"
          /\ buffer' = <<>>
          /\ offset' = 0
          /\ history_entries' = FilteredHistory(history, mode, base)
          /\ history_offset' = None
          /\ buffer_bak' = None
          /\ was_tab_previous_key' = FALSE
          /\ listed' = <<>>
          /\ line' = None
          /\ raw_mode' = TRUE                 \* into_raw_mode()
          /\ key_dropped' = FALSE
       \/ Leave("failed", Err("io", ""))      \* write!(stdout, "{}", prompt)?
       \/ Leave("panicked", None)             \* into_raw_mode().unwrap()
    /\ UNCHANGED <<sessionVars, expandVars, prefixVars, builtinVars, storeVars>>

BackspaceArm ==
    IF offset > 0
    THEN LET r == Remove(buffer, offset - 1) IN
         IF r = Panic THEN Panic ELSE Edited(r.val, offset - 1)
    ELSE Edited(buffer, offset)
KeyBackspace == PlainKey(BackspaceArm)

DeleteArm ==
    IF offset < ByteLen(buffer)
    THEN LET r == Remove(buffer, offset) IN
         IF r = Panic THEN Panic ELSE Edited(r.val, offset)
    ELSE Edited(buffer, offset)
KeyDelete == PlainKey(DeleteArm)

KeyLeft == PlainKey(Edited(buffer, IF offset # 0 THEN offset - 1 ELSE offset))

KeyRight == PlainKey(Edited(buffer, IF offset < ByteLen(buffer) THEN offset + 1 ELSE offset))

\* an Up that enters recall without saving the edited buffer
UpArmNoSnapshot ==
    LET ho == IF history_offset = None THEN Some(0)
              ELSE IF history_offset.val + 1 < Len(history_entries)
                   THEN Some(history_offset.val + 1)
                   ELSE history_offset
    IN  IF ho.val < Len(history_entries)
        THEN LET text == RecallText(history_entries[ho.val + 1]) IN
             Locals(text, ByteLen(text), ho, buffer_bak)
        ELSE Locals(buffer, offset, ho, buffer_bak)

\* Key::Up
UpArm ==
    LET ho == IF history_offset = None THEN Some(0)
              ELSE IF history_offset.val + 1 < Len(history_entries)
                   THEN Some(history_offset.val + 1)
                   ELSE history_offset
        bak == IF history_offset = None THEN Some(buffer) ELSE buffer_bak
    IN  IF ho.val < Len(history_entries)
        THEN LET text == RecallText(history_entries[ho.val + 1]) IN
             Locals(text, ByteLen(text), ho, bak)
        ELSE Locals(buffer, offset, ho, bak)
KeyUp == PlainKey(UpArm)

\* a Down that leaves recall without putting the saved buffer back
DownArmKeepsText ==
    IF history_offset = None THEN Locals(buffer, ByteLen(buffer), None, buffer_bak)
    ELSE IF history_offset.val = 0 THEN Locals(buffer, ByteLen(buffer), None, None)
         ELSE Locals(buffer, ByteLen(buffer), Some(history_offset.val - 1), buffer_bak)

\* Key::Down
DownArm ==
    IF history_offset = None THEN Locals(buffer, ByteLen(buffer), None, buffer_bak)
    ELSE IF history_offset.val = 0
         THEN (IF buffer_bak = None THEN Panic      \* buffer_bak.unwrap()
               ELSE Locals(buffer_bak.val, ByteLen(buffer_bak.val), None, None))
         ELSE LET ho == Some(history_offset.val - 1)
                  text == IF ho.val < Len(history_entries)
                          THEN RecallText(history_entries[ho.val + 1])
                          ELSE buffer
              IN  Locals(text, ByteLen(text), ho, buffer_bak)
KeyDown == PlainKey(DownArm)

\* a Ctrl-u that deletes but leaves the offset where it was
CtrlUArmKeepsOffset ==
    LET r == ReplaceRange(buffer, 0, offset, <<>>) IN
    IF r = Panic THEN Panic ELSE Edited(r.val, offset)

CtrlUArm ==
    LET r == ReplaceRange(buffer, 0, offset, <<>>) IN
    IF r = Panic THEN Panic ELSE Edited(r.val, 0)
KeyCtrlU == PlainKey(CtrlUArm)

CtrlKArm ==
    LET r == ReplaceRange(buffer, offset, ByteLen(buffer), <<>>) IN
    IF r = Panic THEN Panic ELSE Edited(r.val, offset)
KeyCtrlK == PlainKey(CtrlKArm)

CtrlWArm ==
    LET word_start == GetPreviousBoundary(buffer, offset) IN
    IF word_start = Panic THEN Panic
    ELSE LET r == ReplaceRange(buffer, word_start.val, offset, <<>>) IN
         IF r = Panic THEN Panic ELSE Edited(r.val, word_start.val)
KeyCtrlW == PlainKey(CtrlWArm)

KeyCtrlA == PlainKey(Edited(buffer, 0))

KeyCtrlE == PlainKey(Edited(buffer, ByteLen(buffer)))

CtrlBArm ==
    LET b == GetPreviousBoundary(buffer, offset) IN
    IF b = Panic THEN Panic ELSE Edited(buffer, b.val)
KeyCtrlB == PlainKey(CtrlBArm)

CtrlFArm ==
    LET b == GetNextBoundary(buffer, offset) IN
    IF b = Panic THEN Panic ELSE Edited(buffer, b.val)
KeyCtrlF == PlainKey(CtrlFArm)

\* Key::Ctrl('l') only writes to the terminal
KeyCtrlL == PlainKey(Edited(buffer, offset))

\* any key without a match arm
KeyOther == PlainKey(Edited(buffer, offset))

\* Key::Char(c) for a character other than tab and newline
CharArm(c) ==
    IF offset = ByteLen(buffer) THEN Edited(Append(buffer, c), offset + 1)
    ELSE LET r == Insert(buffer, offset, c) IN
         IF r = Panic THEN Panic ELSE Edited(r.val, offset + 1)
KeyChar ==
    /\ Len(buffer) < MaxBufferLen
    /\ \E c \in KeyChars : PlainKey(CharArm(c))

\* the listing of the Tab key (previous key Tab, several candidates) on a
\* terminal `width` columns wide: Ok(what is written), or Panic
Listing(cs, width) ==
    LET widths == {ByteLen(cs[k]) : k \in 1..Len(cs)}
        max_width == CHOOSE w \in widths : \A v \in widths : v <= w
        entries_pre_line == GetEntriesPerLine(ListPadding, max_width, width)
    IN  IF entries_pre_line = 0 THEN Panic     \* i % entries_pre_line
        ELSE Ok(cs)

\* the narrowing of the Tab key (previous key not Tab, several candidates)
NarrowArm(cs) ==
    LET common_prefix == GetCommonPrefix(cs) IN
    IF common_prefix = Panic THEN Panic
    ELSE IF common_prefix.tag = "Some"
         THEN LET r == ReplaceRange(buffer, 0, offset, common_prefix.val) IN
              IF r = Panic THEN Panic ELSE Edited(r.val, ByteLen(r.val))
         ELSE Edited(buffer, offset)

\* the match completions.len().cmp(&1) of the Tab key
TabArm(cs, word_start, width) ==
    IF Len(cs) < 1 THEN Edited(buffer, offset)
    ELSE IF Len(cs) = 1
         THEN LET r == ReplaceRange(buffer, word_start, offset, cs[1]) IN
              IF r = Panic THEN Panic ELSE Edited(r.val, ByteLen(r.val))
         ELSE IF was_tab_previous_key
              THEN (IF Listing(cs, width) = Panic THEN Panic ELSE Edited(buffer, offset))
              ELSE NarrowArm(cs)

\* what the Tab key writes of the candidates
TabListed(cs, width) ==
    IF Len(cs) > 1 /\ was_tab_previous_key /\ Listing(cs, width) # Panic
    THEN Listing(cs, width).val
    ELSE <<>>

\* Key::Char('\t')
KeyTab ==
    /\ Len(buffer) <= MaxBufferLen
    /\ LET word_start == GetPreviousBoundary(buffer, offset)
           prefix == IF word_start = Panic THEN Panic ELSE Slice(buffer, word_start.val, offset)
       IN  IF prefix = Panic
           THEN Iteration(Panic, TRUE, <<>>)
           ELSE LET cs == GetTabCompletions(prefix.val, word_start.val = 0) IN
                \E width \in TermWidths :
                   Iteration(TabArm(cs, word_start.val, width), TRUE, TabListed(cs, width))
    /\ Len(buffer') <= MaxBufferLen

\* Key::Char('\n'): writeln!(stdout, "\r")?; break
KeyEnter == Break(buffer)

\* Key::Ctrl('d'): buffer = "exit"; break
KeyCtrlD == Break(<<"e", "x", "i", "t">>)

\* stdin.keys() ends
EndOfInput == Break(buffer)

\* stdin.keys() yields an Err: filter_map(Result::ok) discards it and the loop
\* waits for the next event
KeyError ==
    /\ status = "reading"
    /\ key_dropped' = TRUE
    /\ UNCHANGED <<status, buffer, offset, history_entries, history_offset, buffer_bak,
                   was_tab_previous_key, listed, line, raw_mode>>
    /\ UNCHANGED <<sessionVars, expandVars, prefixVars, builtinVars, storeVars>>

\* Session::new(history, is_frozen, base, mode)
Init ==
    /\ history \in SampleHistories
    /\ is_frozen = FALSE
    /\ base = SessionBase
    /\ mode \in {"Wrapped", "Normal"}
    /\ files \in SampleFilesystems
    /\ InputIdle
    /\ BuiltinIdle
    /\ StoreInMemory
    /\ ExpandIdle
    /\ PrefixIdle

Next ==
    \/ TakeInput
    \/ KeyBackspace \/ KeyDelete \/ KeyLeft \/ KeyRight
    \/ KeyUp \/ KeyDown
    \/ KeyCtrlU \/ KeyCtrlK \/ KeyCtrlW
    \/ KeyCtrlA \/ KeyCtrlE \/ KeyCtrlB \/ KeyCtrlF
    \/ KeyCtrlL \/ KeyCtrlD
    \/ KeyTab \/ KeyEnter \/ KeyChar \/ KeyOther
    \/ EndOfInput \/ KeyError

Spec == Init /\ [][Next]_vars

-----------------------------------------------------------------------------
(* History: the store, its backing file and its iterator *)

\* most entries push_to_history puts into one store
MaxStored == 2

\* the path find_history_file yields
HistoryPath == "wrash/history.yaml"

\* one line of a YAML document: a key and the scalar behind it (None: none)
YamlLine(k, v) == [key |-> k, value |-> v]

DocStart == YamlLine("---", None)
EmptySeq == YamlLine("[]", None)

\* the lines serde_yaml writes for one HistoryEntry (derive(Serialize))
EntryLines(e) ==
    << YamlLine("- argv", Some(e.argv)),
       YamlLine("  base", e.base),
       YamlLine("  mode", Some(e.mode)),
       YamlLine("  is_builtin", Some(IF e.is_builtin THEN "true" ELSE "false")) >>

RECURSIVE EntriesLines(_)
EntriesLines(entries) ==
    IF entries = <<>> THEN <<>>
    ELSE EntryLines(Head(entries)) \o EntriesLines(Tail(entries))

\* serde_yaml::to_string(self.history.as_slice())
ToYaml(entries) ==
    <<DocStart>> \o (IF entries = <<>> THEN <<EmptySeq>> ELSE EntriesLines(entries))

\* serde_yaml reads the entries of a sequence (derive(Deserialize))
RECURSIVE ParseEntries(_, _)
ParseEntries(lines, acc) ==
    IF lines = <<>> THEN Ok(acc)
    ELSE IF Len(lines) < 4 THEN Err("Custom", "missing field")
    ELSE IF \/ lines[1].key # "- argv" \/ lines[1].value.tag # "Some"
            \/ lines[2].key # "  base"
            \/ lines[3].key # "  mode"
            \/ lines[3].value \notin {Some("Wrapped"), Some("Normal")}
            \/ lines[4].key # "  is_builtin"
            \/ lines[4].value \notin {Some("true"), Some("false")}
         THEN Err("Custom", "invalid type")
    ELSE ParseEntries(SubSeq(lines, 5, Len(lines)),
                      Append(acc, [argv |-> lines[1].value.val,
                                   base |-> lines[2].value,
                                   mode |-> lines[3].value.val,
                                   is_builtin |-> lines[4].value = Some("true")]))

\* serde_yaml::from_str(s.as_str())
FromYaml(lines) ==
    LET body == IF lines # <<>> /\ Head(lines) = DocStart THEN Tail(lines) ELSE lines IN
    IF body = <<>> THEN Err("Custom", "invalid type")
    ELSE IF body = <<EmptySeq>> THEN Ok(<<>>)
    ELSE ParseEntries(body, <<>>)

\* History::with_file(path) on the filesystem d: every outcome
WithFile(d) ==
    IF d.file = None THEN {Err("FailedIo", "NotFound")}      \* fs::read_to_string
    ELSE {Err("FailedIo", "read"),
          IF d.file.val = <<>> THEN Ok(<<>>) ELSE FromYaml(d.file.val)}

\* History::new(): find_history_file, then with_file
HistoryNewOutcomes(d) ==
    {Err("FailedIo", "could not find the user's history file")} \cup WithFile(d)

\* what a sync leaves on the filesystem and returns
Synced(d, r) == [disk |-> d, ret |-> r]

\* a sync that writes no entries
SyncOutcomesEmpty(p, h, d) ==
    IF p = None
    THEN {Synced(d, Err("FailedIo", "no history file exists for struct instance"))}
    ELSE {Synced([parent |-> TRUE, file |-> Some(<<>>)], Ok(<<>>))}

\* a sync that answers Ok without a path
SyncOutcomesLenient(p, h, d) == {Synced(d, Ok(<<>>))}

\* History::sync(&self) with path p and entries h on the filesystem d: every
\* outcome
SyncOutcomes(p, h, d) ==
    IF p = None
    THEN {Synced(d, Err("FailedIo", "no history file exists for struct instance"))}
    ELSE IF ~d.parent
         \* File::create fails with NotFound: create_dir_all(parent)?, then
         \* File::open(path)? of the file that still does not exist
         THEN {Synced(d, Err("FailedIo", "create_dir_all")),
               Synced([d EXCEPT !.parent = TRUE], Err("FailedIo", "NotFound"))}
         ELSE {Synced(d, Err("FailedIo", "create"))}
              \cup {Synced([d EXCEPT !.file = Some(ToYaml(h))], Ok(<<>>))}
              \cup {Synced([d EXCEPT !.file = Some(SubSeq(ToYaml(h), 1, k))],
                           Err("FailedIo", "write")) : k \in 0..(Len(ToYaml(h)) - 1)}

\* str::trim
RECURSIVE TrimStart(_)
TrimStart(t) == IF t # <<>> /\ Head(t) \in {" ", "\t"} THEN TrimStart(Tail(t)) ELSE t
Trim(t) == Reverse(TrimStart(Reverse(TrimStart(t))))

\* the entry push_to_history builds
NewEntry(command, is_builtin, sessionMode, sessionBase) ==
    IF is_builtin
    THEN [argv |-> Trim(command), base |-> None, mode |-> sessionMode, is_builtin |-> TRUE]
    ELSE IF sessionMode = "Wrapped"
         THEN [argv |-> Trim(command), base |-> Some(sessionBase), mode |-> sessionMode,
               is_builtin |-> is_builtin]
         ELSE [argv |-> Trim(command), base |-> None, mode |-> sessionMode,
               is_builtin |-> FALSE]

\* a push that puts the entry in front
PushFront(h, entry) == <<entry>> \o h

\* History::push
Push(h, entry) == Append(h, entry)

\* the commands handed to push_to_history
PushedCommands == { <<" ", "a", " ">> }

\* the files the history path may hold at the start
SampleFiles ==
    { <<>>,
      ToYaml(<<>>),
      ToYaml(<< [argv |-> <<"a">>, base |-> Some(OtherBase), mode |-> "Wrapped",
                 is_builtin |-> FALSE] >>),
      << DocStart, YamlLine("- argv", Some(<<"a">>)), YamlLine("  base", None),
         YamlLine("  mode", Some("Normal")), YamlLine("  is_builtin", Some("false,")) >> }

\* the filesystem at the start: no directory, no file, or one of the files
SampleDisks ==
    {NoDisk, [parent |-> TRUE, file |-> None]}
    \cup {[parent |-> TRUE, file |-> Some(f)] : f \in SampleFiles}

\* a call on the session and what it returned
Called(op, arg, ret) == [op |-> op, arg |-> arg, ret |-> ret]

\* a session exists and no call on it is in progress
Quiescent ==
    /\ store = "open"
    /\ status = "idle"
    /\ iter = Idle
    /\ call = Idle
    /\ returned = Idle

\* History::new() and Session::new(history, is_frozen, base, mode)
HistoryNew ==
    /\ store = "none" /\ call = Idle
    /\ \E o \in HistoryNewOutcomes(disk) :
          /\ call' = Called("new", <<>>, IF o.tag = "Ok" THEN Ok(<<>>) ELSE o)
          /\ IF o.tag = "Ok"
             THEN store' = "open" /\ history' = o.val /\ path' = Some(HistoryPath)
             ELSE UNCHANGED <<store, history, path>>
    /\ UNCHANGED <<is_frozen, base, mode, files, disk, iter>>
    /\ UNCHANGED <<inputVars, builtinVars, expandVars, prefixVars>>

\* History::empty() and Session::new(history, is_frozen, base, mode)
HistoryEmpty ==
    /\ store = "none" /\ call = Idle
    /\ store' = "open" /\ history' = <<>> /\ path' = None
    /\ call' = Called("empty", <<>>, Ok(<<>>))
    /\ UNCHANGED <<is_frozen, base, mode, files, disk, iter>>
    /\ UNCHANGED <<inputVars, builtinVars, expandVars, prefixVars>>

\* the caller goes on after a call
Return ==
    /\ call # Idle
    /\ call' = Idle
    /\ UNCHANGED <<store, path, disk, iter>>
    /\ UNCHANGED <<sessionVars, inputVars, builtinVars, expandVars, prefixVars>>

\* a set_mode that does not look at is_frozen
SetModeOutcomeUnfrozen(frozen, current, m) == [ret |-> Ok(<<>>), mode |-> m]

\* Session::set_mode(mode): the result and the mode it leaves
SetModeOutcome(frozen, current, m) ==
    IF frozen THEN [ret |-> Err("()", ""), mode |-> current]
    ELSE [ret |-> Ok(<<>>), mode |-> m]

\* a call of Session::set_mode(mode)
SetMode ==
    /\ Quiescent
    /\ \E m \in {"Wrapped", "Normal"} :
          LET o == SetModeOutcome(is_frozen, mode, m) IN
          /\ call' = Called("set_mode", m, o.ret)
          /\ mode' = o.mode
    /\ UNCHANGED <<history, is_frozen, base, files, store, path, disk, iter>>
    /\ UNCHANGED <<inputVars, builtinVars, expandVars, prefixVars>>

\* Session::push_to_history(command, is_builtin)
PushToHistory ==
    /\ Quiescent
    /\ Len(history) < MaxStored
    /\ \E command \in PushedCommands, is_builtin \in BOOLEAN :
          /\ history' = Push(history, NewEntry(command, is_builtin, mode, base))
          /\ call' = Called("push_to_history", <<command, is_builtin>>, Ok(<<>>))
    /\ UNCHANGED <<is_frozen, base, mode, files, store, path, disk, iter>>
    /\ UNCHANGED <<inputVars, builtinVars, expandVars, prefixVars>>

\* Session::history_sync()
Sync ==
    /\ Quiescent
    /\ \E o \in SyncOutcomes(path, history, disk) :
          /\ disk' = o.disk
          /\ call' = Called("sync", <<>>, o.ret)
    /\ UNCHANGED <<store, path, iter>>
    /\ UNCHANGED <<sessionVars, inputVars, builtinVars, expandVars, prefixVars>>

\* the session goes out of scope: Drop for Session syncs, then Drop for History
\* syncs again; an error is only printed
DropSession ==
    /\ Quiescent
    /\ \E o1 \in SyncOutcomes(path, history, disk) :
          \E o2 \in SyncOutcomes(path, history, o1.disk) :
             /\ disk' = o2.disk
             /\ call' = Called("drop", <<>>, o2.ret)
    /\ store' = "dropped"
    /\ UNCHANGED <<path, iter>>
    /\ UNCHANGED <<sessionVars, inputVars, builtinVars, expandVars, prefixVars>>

\* History::iter()
Iter ==
    /\ Quiescent
    /\ iter' = [index |-> 0, back_index |-> Len(history), front |-> <<>>, back |-> <<>>,
                front_done |-> FALSE, back_done |-> FALSE]
    /\ UNCHANGED <<store, path, disk, call>>
    /\ UNCHANGED <<sessionVars, inputVars, builtinVars, expandVars, prefixVars>>

\* HistoryIterator::next
IterNext ==
    /\ iter # Idle
    /\ IF iter.index < Len(history)
       THEN iter' = [iter EXCEPT !.index = @ + 1,
                                 !.front = Append(@, history[iter.index + 1])]
       ELSE iter' = [iter EXCEPT !.front_done = TRUE]
    /\ UNCHANGED <<store, path, disk, call>>
    /\ UNCHANGED <<sessionVars, inputVars, builtinVars, expandVars, prefixVars>>

\* HistoryIterator::next_back
IterNextBack ==
    /\ iter # Idle
    /\ IF iter.back_index = 0
       THEN iter' = [iter EXCEPT !.back_done = TRUE]
       ELSE iter' = [iter EXCEPT !.back_index = @ - 1,
                                 !.back = Append(@, history[iter.back_index])]
    /\ UNCHANGED <<store, path, disk, call>>
    /\ UNCHANGED <<sessionVars, inputVars, builtinVars, expandVars, prefixVars>>

\* the iterator is dropped
IterDrop ==
    /\ iter # Idle
    /\ iter' = Idle
    /\ UNCHANGED <<store, path, disk, call>>
    /\ UNCHANGED <<sessionVars, inputVars, builtinVars, expandVars, prefixVars>>

-----------------------------------------------------------------------------
(* builtins::history: the default listing, `filter` and `sync` *)

\* SessionMode::from_str
FromStr(text) ==
    IF text = "wrapped" THEN Ok("Wrapped")
    ELSE IF text = "normal" THEN Ok("Normal")
    ELSE Err("()", "")

\* Regex::new for the patterns of PatternTexts: a lone "(" does not compile
RegexNew(text) == IF "(" \in Range(text) THEN Err("regex", "(") ELSE Ok(text)

\* Regex::is_match of a pattern of literal characters: an unanchored search
RECURSIVE IsMatch(_, _)
IsMatch(pattern, text) ==
    IF Len(text) < Len(pattern) THEN FALSE
    ELSE IF StartsWith(text, pattern) THEN TRUE
    ELSE IsMatch(pattern, Tail(text))

\* a default listing that leaves the builtins out
IsListedNoBuiltins(entry, sessionMode, sessionBase) ==
    /\ entry.mode = sessionMode
    /\ (entry.base.tag = "None" \/ entry.base.val = sessionBase)

\* the filter closure of the listing without subcommand
IsListed(entry, sessionMode, sessionBase) ==
    \/ entry.is_builtin
    \/ /\ entry.mode = sessionMode
       /\ (entry.base.tag = "None" \/ entry.base.val = sessionBase)

\* a filter closure that lets every builtin through
IsFilteredShowingBuiltins(entry, base_filter, mode_filter, show_builtin, pattern) ==
    /\ base_filter.tag = "Some" => entry.base.tag = "Some" /\ entry.base.val = base_filter.val
    /\ mode_filter.tag = "Some" => entry.mode = mode_filter.val
    /\ pattern.tag = "Some" => IsMatch(pattern.val, GetCommand(entry))

\* the filter closure of `history filter`
IsFiltered(entry, base_filter, mode_filter, show_builtin, pattern) ==
    IF entry.is_builtin /\ ~show_builtin THEN FALSE
    ELSE IF base_filter.tag = "Some"
            /\ (entry.base.tag = "None" \/ entry.base.val # base_filter.val) THEN FALSE
    ELSE IF mode_filter.tag = "Some" /\ entry.mode # mode_filter.val THEN FALSE
    ELSE IF pattern.tag = "Some" THEN IsMatch(pattern.val, GetCommand(entry))
    ELSE TRUE

\* an enumeration that counts from one
EnumerateFromOne(entries) ==
    [k \in 1..Len(entries) |-> [index |-> k, text |-> GetCommand(entries[k])]]

\* .enumerate() and writeln!(out_writer, "{}: {}", i, entry.get_command())
Enumerate(entries) ==
    [k \in 1..Len(entries) |-> [index |-> k - 1, text |-> GetCommand(entries[k])]]

\* what one call leaves: the lines and messages written and the result
Outcome(out, err, ret) == [out |-> out, err |-> err, ret |-> ret]

\* the loop over the lines: every writeln! may fail and `?` returns its error
Written(lines) ==
    {Outcome(lines, <<>>, Ok(<<>>))}
    \cup {Outcome(SubSeq(lines, 1, k), <<>>, Err("FailedIo", 0)) : k \in 0..(Len(lines) - 1)}

\* write!(err_writer, message)?; return Err(WrashError::NonZeroExit(1))
Refused(message) ==
    {Outcome(<<>>, <<message>>, Err("NonZeroExit", 1)), Outcome(<<>>, <<>>, Err("FailedIo", 0))}

\* the arm ("filter", Some(sub_matches))
HistoryFilter(m) ==
    LET mode_filter == IF m.mode_filter.tag = "None" THEN Ok(None)
                       ELSE LET parsed == FromStr(m.mode_filter.val) IN
                            IF parsed.tag = "Ok" THEN Ok(Some(parsed.val)) ELSE parsed
        pattern == IF m.pattern.tag = "None" THEN Ok(None)
                   ELSE LET r == RegexNew(m.pattern.val) IN
                        IF r.tag = "Ok" THEN Ok(Some(r.val)) ELSE r
    IN  IF mode_filter.tag = "Err" THEN Refused("could not parse mode")
        ELSE IF pattern.tag = "Err" THEN Refused("invalid regex pattern")
        ELSE IF m.base_filter.tag = "Some" /\ mode_filter.val.tag = "Some"
                /\ mode_filter.val.val # "Wrapped"
             THEN Refused("option '--base' may not be used when '--mode' is not 'wrapped'")
        ELSE Written(Enumerate(SelectSeq(history,
                 LAMBDA entry : IsFiltered(entry, m.base_filter, mode_filter.val,
                                           m.show_builtin, pattern.val))))

\* a sync arm that hands the failure of the sync to its caller
HistorySyncFailing(synced) ==
    IF synced.tag = "Err"
    THEN {Outcome(<<>>, <<"Error saving to history file">>, Err("NonZeroExit", 1))}
    ELSE {Outcome(<<>>, <<>>, Ok(<<>>))}

\* the arm ("sync", Some(_)); `synced` is what session.history_sync() returns
HistorySync(synced) ==
    IF synced.tag = "Err"
    THEN {Outcome(<<>>, <<"Error saving to history file">>, Ok(<<>>)),
          Outcome(<<>>, <<>>, Err("FailedIo", 0))}
    ELSE {Outcome(<<>>, <<>>, Ok(<<>>))}

\* the arm _ of the match: the listing without subcommand
HistoryDefault ==
    Written(Enumerate(SelectSeq(history, LAMBDA entry : IsListed(entry, mode, base))))

\* handle_matches!(app, argv) and the match on matches.subcommand()
HistoryOutcomes(m, synced) ==
    IF m.parse = "HelpDisplayed" THEN {Outcome(<<>>, <<>>, Ok(<<>>))}
    ELSE IF m.parse = "Error" THEN {Outcome(<<>>, <<>>, Err("NonZeroExit", 1))}
    ELSE IF m.subcommand = "sync" THEN HistorySync(synced)
    ELSE IF m.subcommand = "filter" THEN HistoryFilter(m)
    ELSE HistoryDefault

Git == <<"g", "i", "t">>
Cargo == <<"c", "a", "r", "g", "o">>

\* the history of the tests of the builtin, oldest first
StoredEntries ==
    << [argv |-> <<"a", "d", "d", " ", "-", "A">>, base |-> Some(Git),
        mode |-> "Wrapped", is_builtin |-> FALSE],
       [argv |-> <<"m", "o", "d", "e", " ", "n", "o", "r", "m", "a", "l">>, base |-> None,
        mode |-> "Wrapped", is_builtin |-> TRUE],
       [argv |-> <<"c", "o", "m", "m", "i", "t", " ", "-", "m", " ", "'", "x", "'">>,
        base |-> None, mode |-> "Normal", is_builtin |-> FALSE],
       [argv |-> <<"m", "o", "d", "e", " ", "w", "r", "a", "p", "p", "e", "d">>, base |-> None,
        mode |-> "Normal", is_builtin |-> TRUE],
       [argv |-> <<"c", "l", "i", "p", "p", "y">>, base |-> Some(Cargo),
        mode |-> "Wrapped", is_builtin |-> FALSE] >>

\* the entries of `entries` that `keep` marks, in their order
RECURSIVE Kept(_, _)
Kept(entries, keep) ==
    IF entries = <<>> THEN <<>>
    ELSE (IF Head(keep) THEN <<Head(entries)>> ELSE <<>>) \o Kept(Tail(entries), Tail(keep))

\* the histories the builtin is called on: the stored entries, some left out
StoredHistories ==
    {Kept(StoredEntries, keep) : keep \in [1..Len(StoredEntries) -> BOOLEAN]}

\* the pattern arguments: two words of literal characters and one that does
\* not compile
PatternTexts == {Git, <<"m", "o", "d", "e">>, <<"(">>}

\* the parsed arguments of a call without subcommand
NoSubcommand ==
    [parse |-> "Ok", subcommand |-> "", base_filter |-> None, mode_filter |-> None,
     show_builtin |-> FALSE, pattern |-> None]

\* what the argument parser can hand to the builtin
AllMatches ==
    {NoSubcommand}
    \cup {[NoSubcommand EXCEPT !.parse = p] : p \in {"HelpDisplayed", "Error"}}
    \cup {[NoSubcommand EXCEPT !.subcommand = "sync"]}
    \cup [parse : {"Ok"}, subcommand : {"filter"},
          base_filter : {None, Some(Git), Some(Cargo)},
          mode_filter : {None, Some("wrapped"), Some("normal"), Some("Wrapped")},
          show_builtin : BOOLEAN,
          pattern : {None} \cup {Some(t) : t \in PatternTexts}]

\* a session whose history was loaded from the history file
InitHistory ==
    /\ history \in StoredHistories
    /\ is_frozen = FALSE
    /\ base \in {Git, Cargo}
    /\ mode \in {"Wrapped", "Normal"}
    /\ files = <<>>
    /\ InputIdle
    /\ BuiltinIdle
    /\ store = "open" /\ iter = Idle /\ call = Idle
    /\ \/ path = None /\ disk = NoDisk
       \/ path = Some(HistoryPath) /\ disk \in {NoDisk, [parent |-> TRUE, file |-> Some(<<>>)]}
    /\ ExpandIdle
    /\ PrefixIdle

\* builtins::history(out_writer, err_writer, session, argv) with fresh writers
History ==
    /\ status = "idle"
    /\ returned = Idle
    /\ store = "open" /\ iter = Idle /\ call = Idle
    /\ \E m \in AllMatches :
          \E synced \in (IF m.parse = "Ok" /\ m.subcommand = "sync"
                         THEN SyncOutcomes(path, history, disk)       \* session.history_sync()
                         ELSE {Synced(disk, Ok(<<>>))}) :
             \E o \in HistoryOutcomes(m, synced.ret) :
                /\ matches' = m
                /\ out_writer' = o.out
                /\ err_writer' = o.err
                /\ returned' = o.ret
                /\ disk' = synced.disk
    /\ UNCHANGED <<store, path, iter, call>>
    /\ UNCHANGED <<sessionVars, inputVars, expandVars, prefixVars>>

\* what the argument parser can hand to the mode builtin
ModeMatches ==
    [parse : {"Ok"}, subcommand : {"mode"}, mode : {None, Some("wrapped"), Some("normal")}]
    \cup [parse : {"HelpDisplayed", "Error"}, subcommand : {"mode"}, mode : {None}]

FrozenMessage == "Error: could not set session mode, session is frozen"

\* builtins::mode(out_writer, err_writer, session, argv) with fresh writers:
\* the writers, the result and the mode it leaves
ModeOutcomes(m) ==
    LET Left(o, md) == [out |-> o.out, err |-> o.err, ret |-> o.ret, mode |-> md] IN
    IF m.parse = "HelpDisplayed" THEN {Left(Outcome(<<>>, <<>>, Ok(<<>>)), mode)}
    ELSE IF m.parse = "Error" THEN {Left(Outcome(<<>>, <<>>, Err("NonZeroExit", 1)), mode)}
    ELSE IF m.mode.tag = "Some"
         THEN LET set == SetModeOutcome(is_frozen, mode, FromStr(m.mode.val).val) IN
              IF set.ret.tag = "Err"
              THEN {Left(Outcome(<<>>, <<FrozenMessage>>, Err("NonZeroExit", 1)), set.mode),
                    Left(Outcome(<<>>, <<>>, Err("FailedIo", 0)), set.mode)}
              ELSE {Left(Outcome(<<>>, <<>>, Ok(<<>>)), set.mode)}
         ELSE {Left(Outcome(<<mode>>, <<>>, Ok(<<>>)), mode),
               Left(Outcome(<<>>, <<>>, Err("FailedIo", 0)), mode)}

Mode ==
    /\ Quiescent
    /\ \E m \in ModeMatches : \E o \in ModeOutcomes(m) :
          /\ matches' = m
          /\ out_writer' = o.out
          /\ err_writer' = o.err
          /\ returned' = o.ret
          /\ mode' = o.mode
    /\ UNCHANGED <<history, is_frozen, base, files>>
    /\ UNCHANGED <<inputVars, expandVars, prefixVars, storeVars>>

\* the caller has taken the result and the writers of the call are gone
HistoryReturn ==
    /\ returned # Idle
    /\ matches' = Idle /\ out_writer' = <<>> /\ err_writer' = <<>> /\ returned' = Idle
    /\ UNCHANGED <<sessionVars, inputVars, expandVars, prefixVars, storeVars>>

NextHistory == History \/ HistoryReturn

HistorySpec == InitHistory /\ [][NextHistory]_vars

\* the caller has taken the line take_input returned
TakeLine ==
    /\ status \in {"returned", "failed"}
    /\ status' = "idle" /\ line' = None
    /\ UNCHANGED <<buffer, offset, history_entries, history_offset, buffer_bak,
                   was_tab_previous_key, listed, raw_mode, key_dropped>>
    /\ UNCHANGED <<sessionVars, expandVars, prefixVars, builtinVars, storeVars>>

\* before History::new or History::empty: the history file is one of the samples
InitStore ==
    /\ history = <<>>
    /\ is_frozen \in BOOLEAN
    /\ base = SessionBase
    /\ mode \in {"Wrapped", "Normal"}
    /\ files = <<>>
    /\ InputIdle
    /\ BuiltinIdle
    /\ store = "none" /\ path = None /\ disk \in SampleDisks /\ iter = Idle /\ call = Idle
    /\ ExpandIdle
    /\ PrefixIdle

NextStore ==
    \/ HistoryNew \/ HistoryEmpty
    \/ SetMode \/ PushToHistory \/ Sync \/ DropSession
    \/ Iter \/ IterNext \/ IterNextBack \/ IterDrop
    \/ Mode \/ HistoryReturn
    \/ Return

\* the directory of the history file disappears while the session runs: the
\* case File::create answers with ErrorKind::NotFound
RemoveDir ==
    /\ Quiescent
    /\ path # None /\ disk # NoDisk
    /\ disk' = NoDisk
    /\ UNCHANGED <<store, path, iter, call>>
    /\ UNCHANGED <<sessionVars, inputVars, builtinVars, expandVars, prefixVars>>

NextStoreOnDisk == NextStore \/ RemoveDir

StoreSpec == InitStore /\ [][NextStoreOnDisk]_vars

\* before History::new or History::empty, with no history file
InitSession ==
    /\ history = <<>>
    /\ is_frozen \in BOOLEAN
    /\ base = SessionBase
    /\ mode \in {"Wrapped", "Normal"}
    /\ files = <<>>
    /\ InputIdle
    /\ BuiltinIdle
    /\ store = "none" /\ path = None /\ disk = NoDisk /\ iter = Idle /\ call = Idle
    /\ ExpandIdle
    /\ PrefixIdle

NextSession == NextStore \/ Next \/ TakeLine

SessionSpec == InitSession /\ [][NextSession]_vars

-----------------------------------------------------------------------------
(* main: the dispatch loop *)

\* longest committed line handed to the dispatch
MaxLineLen == 3

Backslash == "\\"

\* the character U+0060
Backtick == "grave"

\* shlex::split: the words read so far (acc), the word being read (word: None
\* between words) and the quote that is open ("" outside quotes)
RECURSIVE ShlexLoop(_, _, _, _)
ShlexLoop(s, acc, word, quote) ==
    LET w == IF word = None THEN <<>> ELSE word.val IN
    IF s = <<>>
    THEN IF quote # "" THEN None                       \* the quote is never closed
         ELSE Some(IF word = None THEN acc ELSE Append(acc, w))
    ELSE LET ch == Head(s) rest == Tail(s) IN
         IF quote = "'"
         THEN IF ch = "'" THEN ShlexLoop(rest, acc, Some(w), "")
              ELSE ShlexLoop(rest, acc, Some(Append(w, ch)), quote)
         ELSE IF quote = "\""
         THEN IF ch = "\"" THEN ShlexLoop(rest, acc, Some(w), "")
              ELSE IF ch = Backslash
                   THEN IF rest = <<>> THEN None
                        ELSE IF Head(rest) \in {"$", Backtick, "\"", Backslash}
                             THEN ShlexLoop(Tail(rest), acc, Some(Append(w, Head(rest))), quote)
                             ELSE ShlexLoop(Tail(rest), acc,
                                            Some(w \o <<Backslash, Head(rest)>>), quote)
                   ELSE ShlexLoop(rest, acc, Some(Append(w, ch)), quote)
         ELSE IF ch \in {" ", "\t"}
         THEN ShlexLoop(rest, (IF word = None THEN acc ELSE Append(acc, w)), None, "")
         ELSE IF ch = "#" /\ word = None THEN Some(acc)  \* a comment to the end of the line
         ELSE IF ch \in {"'", "\""} THEN ShlexLoop(rest, acc, Some(w), ch)
         ELSE IF ch = Backslash
              THEN IF rest = <<>> THEN None
                   ELSE ShlexLoop(Tail(rest), acc, Some(Append(w, Head(rest))), "")
         ELSE ShlexLoop(rest, acc, Some(Append(w, ch)), "")

\* shlex::split(cmd.as_str())
ShlexSplit(s) == ShlexLoop(s, <<>>, None, "")

\* the first words main matches before it looks at the mode
BuiltinWords ==
    { <<"e", "x", "i", "t">>, <<"c", "d">>, <<"m", "o", "d", "e">>,
      <<"s", "e", "t", "m", "o", "d", "e">>, <<"h", "e", "l", "p">>,
      <<"h", "i", "s", "t", "o", "r", "y">> }

\* a dispatch that runs the first word in both modes
StartedFirstWord(m, b, argv) == <<Head(argv), Tail(argv)>>

\* the arm _ of the match on argv[0]: the program and the arguments handed to run
Started(m, b, argv) ==
    IF m = "Wrapped" THEN <<b, argv>>              \* run(base, argv.as_slice())
    ELSE <<Head(argv), Tail(argv)>>                \* run(argv[0].as_str(), &argv[1..])

\* the characters of the committed lines
LineChars == {"c", "d", " ", "'", Backslash}

\* take_input has returned a line to main
InitDispatch ==
    /\ history = <<>>
    /\ is_frozen = FALSE
    /\ base = SessionBase
    /\ mode \in {"Wrapped", "Normal"}
    /\ files = <<>>
    /\ status = "returned" /\ buffer = <<>> /\ offset = 0
    /\ history_entries = <<>> /\ history_offset = None /\ buffer_bak = None
    /\ was_tab_previous_key = FALSE /\ listed = <<>>
    /\ raw_mode = FALSE /\ key_dropped = FALSE
    /\ line \in {Ok(l) : l \in Strs(LineChars, MaxLineLen)}
    /\ BuiltinIdle
    /\ StoreInMemory
    /\ ExpandIdle
    /\ PrefixIdle

\* one turn of the loop of main after take_input: split the line, run the
\* builtin or the program, push the line to the history
Dispatch ==
    /\ status = "returned" /\ line.tag = "Ok" /\ call = Idle
    /\ LET argv == ShlexSplit(line.val) IN
       IF argv = None \/ argv.val = <<>>
       THEN /\ call' = Called("continue", <<>>, Ok(<<>>))
            /\ UNCHANGED history
       ELSE /\ history' = Push(history, NewEntry(line.val, FALSE, mode, base))
            /\ IF Head(argv.val) \in BuiltinWords
               THEN call' = Called("builtin", argv.val, Ok(<<>>))
               ELSE \E code \in {Ok(0), Err("code", 1)} :
                       call' = Called("run", Started(mode, base, argv.val), code)
    /\ status' = "idle" /\ line' = None
    /\ UNCHANGED <<buffer, offset, history_entries, history_offset, buffer_bak,
                   was_tab_previous_key, listed, raw_mode, key_dropped>>
    /\ UNCHANGED <<is_frozen, base, mode, files, store, path, disk, iter>>
    /\ UNCHANGED <<expandVars, prefixVars, builtinVars>>

NextDispatch == Dispatch \/ Return

DispatchSpec == InitDispatch /\ [][NextDispatch]_vars

-----------------------------------------------------------------------------
(* get_common_prefix applied to candidate lists *)

PrefixChars == {"a", "b", EAcute}
MaxValueLen == 2
MaxValues == 3

InitPrefix ==
    /\ values \in Strs(Strs(PrefixChars, MaxValueLen), MaxValues)
    /\ common = Idle
    /\ ExpandIdle
    /\ SessionIdle

CallGetCommonPrefix ==
    /\ common = Idle
    /\ common' = GetCommonPrefix(values)
    /\ UNCHANGED <<values, expandVars, sessionVars, inputVars, builtinVars, storeVars>>

NextPrefix == CallGetCommonPrefix

PrefixSpec == InitPrefix /\ [][NextPrefix]_vars

-----------------------------------------------------------------------------
(* Properties of the expansion engine *)

\* number of places at which v occurs in s
Occ(s, v) == Cardinality({k \in 1..(Len(s) - Len(v) + 1) : SubSeq(s, k, k + Len(v) - 1) = v})

\* number of lookups of the variable n
Lookups(names, n) == Cardinality({k \in 1..Len(names) : names[k] = n})

QuoteChars == {"'", "\""}

NoExpansionChars(s) == Range(s) \cap {"~", "$", "'", "\"", "*", "?", "["} = {}

C3NeverAborts ==
    /\ tilde # Panic
    /\ variable.tag # "Panic"
    /\ words # Panic
    /\ result # Panic

\* C4: expand_quotes on a word that ends inside a quoted span returns
\* Err(UnterminatedSequence(q)), q the quote character left open; checked on
\* the one-word lists whose word has no backslash and one quote character.
C4OpenQuoteReported ==
    \A q \in QuoteChars :
        (/\ stage = "done" /\ filenames.tag = "Ok" /\ Len(filenames.val) = 1
         /\ "\\" \notin Range(filenames.val[1])
         /\ \E k \in 1..Len(filenames.val[1]) :
               /\ filenames.val[1][k] = q
               /\ \A j \in 1..Len(filenames.val[1]) : j # k => filenames.val[1][j] \notin QuoteChars)
        => result = Err("UnterminatedSequence", q)

\* C5: expand_vars leaves a reference inside single quotes as it is, and
\* expands a reference inside double quotes as it does outside quotes,
\* whatever else the double-quoted span holds; checked on '$A' and on "p$A"
\* for every p of at most one character other than `$` and `"`.
C5QuotedReferences ==
    stage \in {"split", "filenames", "quotes", "done"} =>
        /\ source = <<"'", "$", "A", "'">> => (variable.tag = "Ok" /\ variable.val = source)
        /\ \A p \in Strs({"A", "{", "}", "'"}, 1) :
              source = <<"\"">> \o p \o <<"$", "A", "\"">>
              => (variable.tag = "Ok" /\ variable.val = <<"\"">> \o p \o envA \o <<"\"">>)

\* C6: expand_filenames maps every input word to at least one output word:
\* no word is dropped.
C6NoWordDropped ==
    filenames.tag = "Ok" => Len(filenames.val) >= Len(words.val)

-----------------------------------------------------------------------------
(* Properties of get_common_prefix *)

\* the longest string every member of vals starts with (vals not empty)
LongestCommonPrefix(vals) ==
    LET heads == {SubSeq(vals[1], 1, n) : n \in 0..Len(vals[1])}
        shared == {p \in heads : \A k \in 1..Len(vals) : StartsWith(vals[k], p)}
    IN  CHOOSE p \in shared : \A q \in shared : Len(q) <= Len(p)

\* C7: get_common_prefix returns Some(p), p the longest string every
\* candidate starts with, exactly when that string is not empty; None when the
\* list is empty or no non-empty string is a prefix of every candidate.
C7LongestCommonPrefix ==
    common # Idle =>
        common = IF values = <<>> \/ LongestCommonPrefix(values) = <<>>
                 THEN None
                 ELSE Some(LongestCommonPrefix(values))

-----------------------------------------------------------------------------
(* Properties of the Tab key *)

\* a step of the key loop taken by the Tab key that leaves the loop running
TabStep == status = "reading" /\ status' = "reading" /\ was_tab_previous_key'

\* the word boundary before the cursor and the cursor are places in the text
HasPrefixSpan ==
    /\ IsCharBoundary(buffer, offset)
    /\ GetPreviousBoundary(buffer, offset) # Panic
    /\ IsCharBoundary(buffer, GetPreviousBoundary(buffer, offset).val)

\* the text before the word boundary, the typed prefix, the text after the
\* cursor, and the candidates for the typed prefix
TextBefore == Slice(buffer, 0, GetPreviousBoundary(buffer, offset).val).val
TypedPrefix == Slice(buffer, GetPreviousBoundary(buffer, offset).val, offset).val
TextAfter == SliceFrom(buffer, offset).val
Candidates == GetTabCompletions(TypedPrefix, GetPreviousBoundary(buffer, offset).val = 0)

\* C8: the Tab key replaces nothing but the prefix span: the text before the
\* word boundary and the text after the cursor are the same after the key as
\* before it.
C8TabKeepsRest ==
    [][(TabStep /\ HasPrefixSpan) =>
          /\ Len(buffer') >= Len(TextBefore) + Len(TextAfter)
          /\ SubSeq(buffer', 1, Len(TextBefore)) = TextBefore
          /\ SubSeq(buffer', Len(buffer') - Len(TextAfter) + 1, Len(buffer')) = TextAfter]_vars

\* C9: on Tab with several candidates after a key other than Tab, the typed
\* prefix is extended to the candidates' longest common prefix when that is
\* longer than the typed prefix, and the cursor becomes the buffer's length;
\* otherwise buffer and cursor stay.  With no candidate they stay as well.
C9TabNarrows ==
    [][(TabStep /\ HasPrefixSpan) =>
          /\ (Len(Candidates) > 1 /\ ~was_tab_previous_key) =>
                IF Len(LongestCommonPrefix(Candidates)) > Len(TypedPrefix)
                THEN /\ buffer' = TextBefore \o LongestCommonPrefix(Candidates) \o TextAfter
                     /\ offset' = ByteLen(buffer')
                ELSE buffer' = buffer /\ offset' = offset
          /\ Len(Candidates) = 0 => (buffer' = buffer /\ offset' = offset)]_vars

\* C10: on Tab with several candidates the list is written exactly when the
\* key before was Tab too, and then buffer and cursor stay; any other key
\* makes the next Tab narrow again.
C10SecondTabLists ==
    [][/\ (KeyTab /\ status' # "failed" /\ HasPrefixSpan /\ Len(Candidates) > 1) =>
             /\ (listed' = Candidates) <=> was_tab_previous_key
             /\ was_tab_previous_key =>
                   (status' = "reading" /\ buffer' = buffer /\ offset' = offset)
       /\ (status = "reading" /\ status' = "reading" /\ ~KeyTab) => ~was_tab_previous_key'
      ]_vars

-----------------------------------------------------------------------------
(* History recall and the cursor of take_input *)

\* an iteration of the key loop after which take_input is still reading
KeyStep == status = "reading" /\ status' = "reading"

\* C11: the first Up saves the buffer text, no key pressed while in recall
\* changes the saved text, each Down above the newest entry steps one entry
\* newer, and the Down pressed at the newest entry leaves recall with the
\* buffer equal to the saved text; recall is left by no other key.
C11RecallRoundTrip ==
    [][/\ (KeyUp /\ KeyStep /\ history_offset = None => buffer_bak' = Some(buffer))
       /\ (KeyStep /\ history_offset # None /\ history_offset' # None
              => buffer_bak' = buffer_bak /\ buffer_bak # None)
       /\ (KeyDown /\ KeyStep /\ history_offset # None /\ history_offset # Some(0)
              => history_offset' = Some(history_offset.val - 1))
       /\ (KeyDown /\ KeyStep /\ history_offset = Some(0)
              => buffer' = buffer_bak.val /\ history_offset' = None)
       /\ (KeyStep /\ history_offset # None /\ history_offset' = None
              => history_offset = Some(0) /\ buffer' = buffer_bak.val)]_vars

\* in recall at the newest entry, with a non-empty saved text and a buffer that
\* was edited after the recall
C11Witness ==
    /\ status = "reading"
    /\ history_offset = Some(0)
    /\ history_entries # <<>>
    /\ buffer_bak = Some(<<"a", EAcute>>)
    /\ buffer = <<>>

\* C12: a Down pressed outside history recall leaves buffer text, cursor offset
\* and recall state as they were.
C12DownOutsideRecall ==
    [][KeyDown /\ KeyStep /\ history_offset = None
          => /\ buffer' = buffer
             /\ offset' = offset
             /\ history_offset' = history_offset
             /\ buffer_bak' = buffer_bak]_vars

\* C13: while in recall the recall index addresses an entry of the filtered
\* view; the first Up saves the buffer and selects the newest entry, a further
\* Up selects the next older entry or stays at the oldest, and after an Up the
\* buffer shows the selected entry with the cursor at its end.
C13UpNavigation ==
    /\ [](status = "reading" /\ history_offset # None
             => history_offset.val < Len(history_entries))
    /\ [][KeyUp /\ KeyStep
             => /\ history_offset = None
                   => history_offset' = Some(0) /\ buffer_bak' = Some(buffer)
                /\ history_offset # None
                   => history_offset' =
                         Some(IF history_offset.val + 1 < Len(history_entries)
                              THEN history_offset.val + 1 ELSE history_offset.val)
                /\ history_offset'.val < Len(history_entries)
                /\ buffer' = RecallText(history_entries[history_offset'.val + 1])
                /\ offset' = ByteLen(buffer')]_vars

\* the entries of the history that pass the filter of the recall, by position
PassingIdx ==
    {i \in 1..Len(history) :
        \/ history[i].is_builtin
        \/ /\ history[i].mode = mode
           /\ (history[i].base = None \/ history[i].base = Some(base))}

\* C14: an Up or Down that stays in recall with index k shows the entry that
\* has exactly k passing entries after it in the history, and shows nothing
\* when no entry passes; the view take_input keeps holds one entry for each
\* passing entry.
C14RecallableEntries ==
    /\ [](status = "reading" => Len(history_entries) = Cardinality(PassingIdx))
    /\ [][(KeyUp \/ KeyDown) /\ KeyStep /\ history_offset' # None
             => IF PassingIdx = {} THEN buffer' = buffer
                ELSE \E i \in PassingIdx :
                        /\ Cardinality({j \in PassingIdx : j > i}) = history_offset'.val
                        /\ buffer' = RecallText(history[i])]_vars

\* a base-mismatched entry is held back while another entry is shown
C14Witness ==
    /\ status = "reading"
    /\ history_offset = Some(0)
    /\ Len(history) = 2
    /\ Cardinality(PassingIdx) = 1
    /\ \E i \in 1..Len(history) :
          /\ i \notin PassingIdx
          /\ history[i].mode = mode
    /\ buffer = RecallText(history_entries[1])

\* the text the recall is to show for an entry
ShownText(entry) ==
    IF entry.mode = "Wrapped" /\ ~entry.is_builtin THEN entry.argv
    ELSE IF entry.base = None THEN entry.argv
         ELSE entry.base.val \o <<" ">> \o entry.argv

\* C15: after an Up or a Down that selects an entry the buffer holds argv alone
\* for a wrapped entry that is no builtin, and otherwise base, a space and argv
\* (argv alone when the entry has no base).
C15RecalledText ==
    [][(KeyUp \/ KeyDown) /\ KeyStep /\ history_offset' # None
          /\ history_offset'.val < Len(history_entries)
          => buffer' = ShownText(history_entries[history_offset'.val + 1])]_vars

\* an entry that is shown with its base in front
C15Witness ==
    /\ status = "reading"
    /\ history_offset # None
    /\ history_offset.val < Len(history_entries)
    /\ history_entries[history_offset.val + 1].base # None
    /\ buffer = <<"a", " ", "a">>

\* C16: while take_input reads keys the cursor offset is between 0 and the
\* length of the buffer in bytes.
C16CursorInBuffer ==
    status = "reading" => 0 <= offset /\ offset <= ByteLen(buffer)

\* the cursor behind a two-byte character and a typed character
C16Witness ==
    /\ status = "reading"
    /\ buffer = <<EAcute, "a">>
    /\ offset = 3

-----------------------------------------------------------------------------
(* The history builtin *)

\* the texts of the lines written, in the order written
WrittenTexts == [k \in 1..Len(out_writer) |-> out_writer[k].text]

\* the listing without subcommand ran to its end on the stored entries, in a
\* wrapped session of base git
ListedStoredEntries ==
    /\ history = StoredEntries
    /\ mode = "Wrapped"
    /\ base = Git
    /\ matches = NoSubcommand
    /\ returned = Ok(<<>>)

\* C17: for the five stored entries, session base git and mode Wrapped, the
\* listing holds entries 1, 2 and 5: "git add -A", "mode normal",
\* "cargo clippy".
C17ListsEntry5 ==
    ListedStoredEntries
       => WrittenTexts = << GetCommand(StoredEntries[1]), GetCommand(StoredEntries[2]),
                            GetCommand(StoredEntries[5]) >>

\* C17, amended: for the five stored entries, session base git and mode
\* Wrapped, the listing holds entries 1, 2 and 4: "git add -A", "mode normal",
\* "mode wrapped".
C17ListsEntry4 ==
    ListedStoredEntries
       => /\ WrittenTexts = << Git \o <<" ">> \o StoredEntries[1].argv,
                               StoredEntries[2].argv, StoredEntries[4].argv >>
          /\ PassingIdx = {1, 2, 4}

C17Witness == ListedStoredEntries /\ Len(out_writer) = 3

\* the line the listing is to write for the entry at position i of the history
\* when k entries were written before it
LineOf(i, k) ==
    [index |-> k,
     text |-> IF history[i].base = None THEN history[i].argv
              ELSE history[i].base.val \o <<" ">> \o history[i].argv]

\* the lines written are those of the entries at the positions idx, in the
\* order of the history, numbered from 0 by their position among them
WritesExactly(idx) ==
    /\ Len(out_writer) = Cardinality(idx)
    /\ \A i \in idx :
          LET k == Cardinality({j \in idx : j < i}) IN out_writer[k + 1] = LineOf(i, k)

Filtered ==
    /\ matches # Idle
    /\ matches.parse = "Ok"
    /\ matches.subcommand = "filter"
    /\ returned = Ok(<<>>)

\* the mode named by --mode
NamedMode == IF matches.mode_filter = Some("wrapped") THEN "Wrapped" ELSE "Normal"

\* a literal pattern occurs in a text
Occurs(pattern, text) ==
    \E k \in 0..(Len(text) - Len(pattern)) : SubSeq(text, k + 1, k + Len(pattern)) = pattern

\* the positions of the entries that pass --show-builtin, --mode and the
\* pattern of the call
FilterIdx ==
    {i \in 1..Len(history) :
        /\ history[i].is_builtin => matches.show_builtin
        /\ matches.mode_filter # None => history[i].mode = NamedMode
        /\ matches.pattern # None => Occurs(matches.pattern.val, LineOf(i, 0).text)}

C20BaseOrNoBase ==
    Filtered /\ matches.base_filter # None
       => WritesExactly({i \in FilterIdx :
                            history[i].base = None \/ history[i].base = matches.base_filter})

-----------------------------------------------------------------------------
(* Terminal input and output of take_input *)

\* C29: when reading a key event fails, or a write to the terminal fails,
\* take_input stops at once and returns that I/O error: it neither goes on
\* reading keys nor returns a line.
C29IoFailuresAbort ==
    [][status = "reading" /\ key_dropped'
          => status' = "failed" /\ line' = Err("io", "")]_vars

\* C30: the terminal is in raw mode while take_input reads keys, and it is not
\* in raw mode before the call nor after take_input has returned a line (Enter,
\* Ctrl-d, end of the key stream) or an I/O error.
C30RawModeScoped ==
    /\ status = "reading" => raw_mode
    /\ status \in {"idle", "returned", "failed"} => ~raw_mode

\* take_input has returned the line of Ctrl-d, and the terminal is restored
C30Witness ==
    /\ status = "returned"
    /\ line = Ok(<<"e", "x", "i", "t">>)
    /\ ~raw_mode

-----------------------------------------------------------------------------
(* The session's mode and its history store *)

\* a step in which Session::set_mode(m) is called and returns
SetModeStep == call = Idle /\ call' # Idle /\ call'.op = "set_mode"

\* a step in which the mode builtin is called with a mode argument
ModeSetStep ==
    /\ returned = Idle /\ returned' # Idle
    /\ matches'.subcommand = "mode" /\ matches'.parse = "Ok" /\ matches'.mode # None

\* C21: in a frozen session no step changes the mode: set_mode(m) answers an
\* error for every m and the mode builtin called with a mode answers
\* NonZeroExit(1) after writing the message to the error writer, or the I/O
\* error of that write; in a session that is not frozen set_mode(m) answers Ok
\* and makes m the mode.
C21FrozenMode ==
    [][/\ is_frozen => mode' = mode
       /\ SetModeStep =>
             IF is_frozen THEN call'.ret.tag = "Err" /\ mode' = mode
             ELSE call'.ret.tag = "Ok" /\ mode' = call'.arg
       /\ ModeSetStep /\ is_frozen =>
             \/ returned' = Err("NonZeroExit", 1) /\ err_writer' = <<FrozenMessage>>
             \/ returned' = Err("FailedIo", 0) /\ err_writer' = <<>>]_vars

\* C21 as stated: the mode builtin of a frozen session always reports the error
\* and returns NonZeroExit(1)
C21ModeBuiltinReports ==
    [][ModeSetStep /\ is_frozen =>
          returned' = Err("NonZeroExit", 1) /\ err_writer' = <<FrozenMessage>>]_vars

\* the mode builtin refused to set a frozen session to the mode it has
C21Witness ==
    /\ is_frozen
    /\ mode = "Wrapped"
    /\ matches # Idle /\ matches.subcommand = "mode" /\ matches.mode = Some("wrapped")
    /\ returned = Err("NonZeroExit", 1)
    /\ err_writer = <<FrozenMessage>>

\* a step in which Session::push_to_history(command, is_builtin) is called
PushStep == call = Idle /\ call' # Idle /\ call'.op = "push_to_history"

\* C22: push_to_history(command, true) appends exactly one entry: the trimmed
\* command, no base, is_builtin true and mode Normal, whatever the session's
\* mode is.
C22BuiltinEntryNormal ==
    [][PushStep /\ call'.arg[2] =>
          history' = Append(history, [argv |-> Trim(call'.arg[1]), base |-> None,
                                      mode |-> "Normal", is_builtin |-> TRUE])]_vars

\* what the iterator has yielded so far is the stored sequence from the front
\* and the stored sequence from the back
IterationInOrder ==
    iter # Idle =>
       /\ iter.front = SubSeq(history, 1, Len(iter.front))
       /\ iter.back = SubSeq(Reverse(history), 1, Len(iter.back))
       /\ iter.front_done => iter.front = history
       /\ iter.back_done => iter.back = Reverse(history)

\* a step of an existing session keeps the stored entries and changes the
\* sequence only by a push, which puts its entry behind them
AppendOnly ==
    store = "open" =>
       /\ Len(history) <= Len(history')
       /\ SubSeq(history', 1, Len(history)) = history
       /\ history' # history =>
             /\ PushStep
             /\ history' = Append(history, NewEntry(call'.arg[1], call'.arg[2], mode, base))

\* C23: the history store is an append-only ordered log: over push_to_history
\* (History::push), iteration, sync, set_mode, the builtins and take_input the
\* stored sequence is the earlier sequence followed by the pushed entries in
\* the order of the pushes; iterating forward yields the entries in insertion
\* order and iterating in reverse yields exactly the reverse.
C23AppendOnlyLog == []IterationInOrder /\ [][AppendOnly]_vars

\* two different entries were pushed and an iterator has yielded them in
\* insertion order from the front and in reverse from the back
C23Witness ==
    /\ Len(history) = 2 /\ history[1] # history[2]
    /\ iter # Idle
    /\ iter.front = history /\ iter.front_done
    /\ iter.back = <<history[2], history[1]>> /\ iter.back_done

\* a step in which History::new() is called and found the path of the file
LoadStep ==
    /\ call = Idle /\ call' # Idle /\ call'.op = "new"
    /\ call'.ret # Err("FailedIo", "could not find the user's history file")

\* a step in which the history is synced: by history_sync or by the drops
SyncStep == call = Idle /\ call' # Idle /\ call'.op \in {"sync", "drop"}

\* C24: loading from a path whose file does not exist is not an error: it
\* returns a ready store that is empty and points at that path.
C24MissingFileLoadsEmpty ==
    [][LoadStep /\ disk.file = None =>
          /\ call'.ret.tag = "Ok"
          /\ store' = "open" /\ history' = <<>> /\ path' = Some(HistoryPath)]_vars

\* C25: a sync of a store whose path lacks its parent directories creates
\* them and succeeds, and the file then holds the serialization of the entries.
C25SyncCreatesParents ==
    [][SyncStep /\ call'.op = "sync" /\ path # None /\ ~disk.parent =>
          /\ call'.ret.tag = "Ok"
          /\ disk' = [parent |-> TRUE, file |-> Some(ToYaml(history))]]_vars

\* C26: a sync of a store without backing path, explicit or at drop, returns
\* an I/O error, writes no file and leaves the entries in memory unchanged.
C26SyncWithoutPath ==
    [][SyncStep /\ path = None =>
          /\ call'.ret.tag = "Err" /\ call'.ret.kind = "FailedIo"
          /\ disk' = disk
          /\ history' = history /\ path' = path]_vars

\* a session over History::empty() with an entry pushed was dropped beside a
\* history file, and the file is as it was
C26Witness ==
    /\ store = "dropped" /\ path = None
    /\ call # Idle /\ call.op = "drop" /\ call.ret.tag = "Err"
    /\ history # <<>>
    /\ disk = [parent |-> TRUE, file |-> Some(ToYaml(<<>>))]

\* C27: with an existing backing file, a sync that succeeds, explicit or at
\* drop, leaves the file holding every entry in order, and loading from the
\* path then yields a sequence equal to the one in memory (the empty one
\* included).
C27RoundTrip ==
    [][SyncStep /\ path # None /\ disk.file # None /\ call'.ret.tag = "Ok" =>
          /\ disk'.file = Some(ToYaml(history))
          /\ Ok(history) \in WithFile(disk')
          /\ \A o \in WithFile(disk') : o.tag = "Ok" => o.val = history]_vars

\* a store loaded from a file with one entry got another entry pushed and was
\* synced at drop: the file holds both
C27Witness ==
    /\ store = "dropped" /\ path # None
    /\ call # Idle /\ call.op = "drop" /\ call.ret.tag = "Ok"
    /\ Len(history) = 2 /\ history[1].base = Some(OtherBase) /\ history[2].base = None
    /\ disk.file = Some(ToYaml(history))
    /\ FromYaml(disk.file.val) = Ok(history)

\* a step in which the history builtin is called with the subcommand sync
HistorySyncStep ==
    /\ returned = Idle /\ returned' # Idle
    /\ matches'.parse = "Ok" /\ matches'.subcommand = "sync"

\* the sync of the store cannot succeed: no path, or no directory for the file
SyncMustFail == \A o \in SyncOutcomes(path, history, disk) : o.ret.tag = "Err"

\* C28: `history sync` leaves history and mode unchanged; when the sync fails
\* the builtin writes the warning to the error writer and returns Ok(()), or,
\* when that write fails, returns the I/O error of the write; it returns Ok(())
\* without a warning only when the file was written.
C28SyncFailureWarns ==
    [][HistorySyncStep =>
          /\ history' = history /\ mode' = mode
          /\ \/ returned' = Ok(<<>>) /\ err_writer' = <<"Error saving to history file">>
             \/ returned' = Err("FailedIo", 0) /\ err_writer' = <<>>
             \/ /\ returned' = Ok(<<>>) /\ err_writer' = <<>>
                /\ ~SyncMustFail
                /\ disk'.file = Some(ToYaml(history))]_vars

\* C28 as stated: whenever the sync fails the builtin writes the warning and
\* returns Ok(())
C28SyncFailureAlwaysOk ==
    [][HistorySyncStep /\ SyncMustFail =>
          /\ history' = history /\ mode' = mode
          /\ returned' = Ok(<<>>)
          /\ err_writer' = <<"Error saving to history file">>]_vars

\* `history sync` on a session over History::empty() with entries: the warning
\* was written and the builtin returned Ok(())
C28Witness ==
    /\ path = None /\ history # <<>>
    /\ matches # Idle /\ matches.parse = "Ok" /\ matches.subcommand = "sync"
    /\ returned = Ok(<<>>)
    /\ err_writer = <<"Error saving to history file">>

-----------------------------------------------------------------------------
(* The dispatch of a committed line *)

\* a step in which main dispatches the line `l` it got from take_input
DispatchStep == status = "returned" /\ call = Idle /\ call' # Idle

\* C31: for a committed line whose first word is not a builtin, in Wrapped
\* mode the program started is the base program with all words of the line as
\* arguments, in Normal mode it is the first word with the remaining words as
\* arguments; a line without words starts no program and is not pushed to the
\* history.
C31ModeDispatch ==
    [][DispatchStep =>
          LET argv == ShlexSplit(line.val) IN
          /\ argv = Some(<<>>) => call'.op # "run" /\ history' = history
          /\ argv # None /\ argv # Some(<<>>) /\ Head(argv.val) \notin BuiltinWords =>
                /\ call'.op = "run"
                /\ mode = "Wrapped" => call'.arg = <<base, argv.val>>
                /\ mode = "Normal" => call'.arg = <<Head(argv.val), Tail(argv.val)>>
          /\ call'.op = "run" => Head(argv.val) \notin BuiltinWords]_vars

\* the line "c d" was dispatched in Wrapped mode: the base program was run
\* with the arguments "c" and "d", and the line was pushed
C31Witness ==
    /\ mode = "Wrapped"
    /\ call # Idle /\ call.op = "run"
    /\ call.arg = <<SessionBase, << <<"c">>, <<"d">> >> >>
    /\ Len(history) = 1 /\ history[1].argv = <<"c", " ", "d">>

-----------------------------------------------------------------------------
(* The steps of expand, one by one *)

\* the index of the quote that closes the span opened at s[k]: the first
\* character from j on that equals s[k] and does not follow a backslash; 0 if
\* the span is never closed
RECURSIVE SpanEnd(_, _, _)
SpanEnd(s, k, j) ==
    IF j > Len(s) THEN 0
    ELSE IF s[j] = s[k] /\ (j = k + 1 \/ s[j - 1] # "\\") THEN j
    ELSE SpanEnd(s, k, j + 1)

\* the text with its tildes expanded, read from s[k] on: a quoted span is
\* copied, `\~` gives `~`, another escape is copied, a tilde gives homeText
RECURSIVE TildeExpanded(_, _, _)
TildeExpanded(s, k, homeText) ==
    IF k > Len(s) THEN Ok(<<>>)
    ELSE LET Then(text, next) ==
                 LET rest == TildeExpanded(s, next, homeText) IN
                 IF rest.tag = "Ok" THEN Ok(text \o rest.val) ELSE rest
         IN  IF s[k] \in {"'", "\""}
             THEN LET end == SpanEnd(s, k, k + 1) IN
                  IF end = 0 THEN Err("UnterminatedSequence", s[k])
                  ELSE Then(SubSeq(s, k, end), end + 1)
             ELSE IF s[k] = "\\"
             THEN IF k = Len(s) THEN Err("UnterminatedSequence", "\\")
                  ELSE IF s[k + 1] = "~" THEN Then(<<"~">>, k + 2)
                  ELSE Then(<<"\\", s[k + 1]>>, k + 2)
             ELSE IF s[k] = "~" THEN Then(homeText, k + 1)
             ELSE Then(<<s[k]>>, k + 1)

\* C32: expand_tilde replaces every tilde that is neither inside a quoted
\* span nor escaped by the provider's value and copies quoted spans verbatim,
\* an escaped tilde comes out as a literal tilde; when the provider returns
\* none every tilde stays, and a source without quotes and backslashes comes
\* out as it is.
C32TildeExpansion ==
    tilde # None =>
        LET want == TildeExpanded(source, 1, IF home = NoHome THEN <<"~">> ELSE home.val) IN
        /\ want.tag = "Ok" => tilde = want
        /\ home = NoHome /\ Range(source) \cap {"'", "\"", "\\"} = {} => tilde = Ok(source)

\* C33: expand_tilde returns Err(UnterminatedSequence(q)) for every source in
\* which a quote q is opened and never closed, with or without a tilde in the
\* source.
C33OpenQuoteInTilde ==
    tilde # None =>
        LET want == TildeExpanded(source, 1, IF home = NoHome THEN <<"~">> ELSE home.val) IN
        want.tag = "Err" /\ want.ch \in QuoteChars => tilde = want

\* the index after the longest run of alphanumeric characters and `_` that
\* starts at s[j]
RECURSIVE NameEnd(_, _)
NameEnd(s, j) ==
    IF j <= Len(s) /\ (IsAlphanumeric(s[j]) \/ s[j] = "_") THEN NameEnd(s, j + 1) ELSE j

\* the text with its references expanded, read from s[k] on: a single-quoted
\* span is copied, `${NAME}` and `$NAME` give the value of NAME, every other
\* character is copied
RECURSIVE VarsExpanded(_, _, _)
VarsExpanded(s, k, valueOfA) ==
    IF k > Len(s) THEN Ok(<<>>)
    ELSE LET Then(text, next) ==
                 LET rest == VarsExpanded(s, next, valueOfA) IN
                 IF rest.tag = "Ok" THEN Ok(text \o rest.val) ELSE rest
         IN  IF s[k] = "'"
             THEN LET end == FindChar(s, k + 1, "'") IN Then(SubSeq(s, k, end - 1), end)
             ELSE IF s[k] # "$" THEN Then(<<s[k]>>, k + 1)
             ELSE IF k = Len(s) THEN Err("UnterminatedSequence", "$")
             ELSE IF s[k + 1] = "{"
             THEN LET close == {j \in (k + 2)..Len(s) : s[j] = "}"} IN
                  IF close = {} THEN Err("UnterminatedSequence", "{")
                  ELSE LET end == CHOOSE j \in close : \A h \in close : j <= h IN
                       Then(EnvVar(SubSeq(s, k + 2, end - 1), valueOfA), end + 1)
             ELSE LET end == NameEnd(s, k + 1) IN
                  Then(EnvVar(SubSeq(s, k + 1, end - 1), valueOfA), end)

\* C34: expand_vars outside single quotes: `${NAME` without a closing brace
\* after it fails with UnterminatedSequence('{'), a `$` that is the last
\* character fails with UnterminatedSequence('$'), a bare `$NAME` takes the
\* longest run of alphanumeric characters and `_`, an undefined variable gives
\* the empty string, and all text outside references is copied unchanged and
\* in order.
C34VarsOutcome ==
    variable # None =>
        LET want == VarsExpanded(tilde.val, 1, envA) IN
        IF want.tag = "Ok" THEN variable.tag = "Ok" /\ variable.val = want.val
        ELSE variable = want

\* the indices from k on of the spaces and tabs of s that lie outside quoted
\* spans and are not escaped by a backslash
RECURSIVE Delimiters(_, _)
Delimiters(s, k) ==
    IF k > Len(s) THEN {}
    ELSE IF s[k] \in {"'", "\""}
         THEN LET end == SpanEnd(s, k, k + 1) IN
              IF end = 0 THEN {} ELSE Delimiters(s, end + 1)
    ELSE IF s[k] = "\\" THEN Delimiters(s, k + 2)
    ELSE IF s[k] \in {" ", "\t"} THEN {k} \cup Delimiters(s, k + 1)
    ELSE Delimiters(s, k + 1)

\* the non-empty pieces of s between the indices in `at`, read from s[k] on,
\* `word` being the piece that s[k] continues
RECURSIVE Pieces(_, _, _, _)
Pieces(s, k, word, at) ==
    IF k > Len(s) THEN (IF word = <<>> THEN <<>> ELSE <<word>>)
    ELSE IF k \in at
         THEN (IF word = <<>> THEN <<>> ELSE <<word>>) \o Pieces(s, k + 1, <<>>, at)
         ELSE Pieces(s, k + 1, Append(word, s[k]), at)

\* C35: split_words splits exactly at the runs of spaces and tabs that are
\* outside quoted spans and not escaped: the words are non-empty, hold no such
\* delimiter, keep their quotes and backslashes, and in source order cover
\* every other character of the source exactly once.
C35SplitAtDelimiters ==
    words # None => words = Ok(Pieces(variable.val, 1, <<>>, Delimiters(variable.val, 1)))

\* the word w, read from w[k] on inside the quote `open` ("" outside quotes),
\* without its quote delimiters and with its escapes replaced; Open when the
\* word ends inside a quoted span
RECURSIVE QuotesRemoved(_, _, _)
QuotesRemoved(w, k, open) ==
    IF k > Len(w) THEN (IF open = "" THEN Ok(<<>>) ELSE [tag |-> "Open"])
    ELSE LET Then(text, next, quote) ==
                 LET rest == QuotesRemoved(w, next, quote) IN
                 IF rest.tag = "Ok" THEN Ok(text \o rest.val) ELSE rest
         IN  IF w[k] = "\\"
             THEN IF k = Len(w) THEN Err("UnexpectedEndOfLine", "")
                  ELSE IF w[k + 1] \in {"\"", "'", " ", "~"} THEN Then(<<w[k + 1]>>, k + 2, open)
                  ELSE Err("InvalidEscape", w[k + 1])
             ELSE IF w[k] \in QuoteChars
             THEN IF open = "" THEN Then(<<>>, k + 1, w[k])
                  ELSE IF open = w[k] THEN Then(<<>>, k + 1, "")
                  ELSE Then(<<w[k]>>, k + 1, open)
             ELSE Then(<<w[k]>>, k + 1, open)

\* C36: expand_quotes returns every word whose quotes are balanced and whose
\* escapes are of `"`, `'`, space or `~` without its quote delimiters, a quote
\* of the other kind inside a span kept, every escape replaced by the escaped
\* character and all other characters kept in order; the first word with
\* another escape makes it return InvalidEscape of that character and one with
\* a trailing backslash UnexpectedEndOfLine.
C36QuoteRemoval ==
    stage = "done" /\ filenames # None /\ filenames.tag = "Ok" =>
        LET want == [k \in 1..Len(filenames.val) |-> QuotesRemoved(filenames.val[k], 1, "")]
            failed == {k \in 1..Len(want) : want[k].tag # "Ok"}
        IN  IF failed = {} THEN result = Ok([k \in 1..Len(want) |-> want[k].val])
            ELSE LET first == CHOOSE k \in failed : \A j \in failed : k <= j IN
                 want[first].tag = "Err" => result = want[first]

\* the word '"'a was expanded to "a: the double quote inside the single-quoted
\* span was kept and the single quotes were removed
C36Witness ==
    /\ stage = "done"
    /\ source = <<"'", "\"", "'", "a">>
    /\ filenames = Ok(<<source>>)
    /\ result = Ok(<< <<"\"", "a">> >>)

-----------------------------------------------------------------------------
(* Word boundaries *)

\* char::is_whitespace on the characters of the model
IsWhitespace(ch) == ch \in {" ", "\t"}

\* the start of the run of characters of one class that ends at the char
\* boundary c > 0 of buf, as a byte offset
PreviousBoundaryOf(buf, c) ==
    LET n == CharsBefore(buf, c)
        class == IsWhitespace(buf[n])
        p == CHOOSE q \in 0..(n - 1) :
                 /\ \A j \in (q + 1)..n : IsWhitespace(buf[j]) = class
                 /\ q = 0 \/ IsWhitespace(buf[q]) # class
    IN  ByteOff(buf, p)

\* the end of the run of characters of one class that starts at the char
\* boundary c < len of buf, as a byte offset
NextBoundaryOf(buf, c) ==
    LET n == CharsBefore(buf, c)
        class == IsWhitespace(buf[n + 1])
        e == CHOOSE q \in (n + 1)..Len(buf) :
                 /\ \A j \in (n + 1)..q : IsWhitespace(buf[j]) = class
                 /\ q = Len(buf) \/ IsWhitespace(buf[q + 1]) # class
    IN  ByteOff(buf, e)

\* C37: for every buffer and every cursor on a character, get_previous_boundary
\* returns the start of the run of characters of the class of the character
\* before the cursor (0 for the cursor 0), and get_next_boundary the end of the
\* run of characters of the class of the character at the cursor (len for the
\* cursor len); checked on the jumps Ctrl-b and Ctrl-f make with them.
C37WordBoundaries ==
    [][status = "reading" /\ IsCharBoundary(buffer, offset) /\ status' # "failed" =>
          /\ KeyCtrlB =>
                /\ status' = "reading" /\ buffer' = buffer
                /\ offset' = IF offset = 0 THEN 0 ELSE PreviousBoundaryOf(buffer, offset)
          /\ KeyCtrlF =>
                /\ status' = "reading" /\ buffer' = buffer
                /\ offset' = IF offset = ByteLen(buffer) THEN offset
                             ELSE NextBoundaryOf(buffer, offset)]_vars

-----------------------------------------------------------------------------
(* The Tab key *)

\* C38: pressing Tab never aborts take_input: for every buffer, cursor
\* position, candidate set and terminal width the completion lookup yields a
\* list, possibly empty, the row length of the listing is computed without
\* failing, and the loop goes on to the next key (or returns the write error
\* of the terminal).
C38TabNeverAborts ==
    [][KeyTab => status' # "panicked"]_vars

\* the same on a buffer of one-byte characters, where the cursor cannot lie
\* inside a character: the listing on a terminal narrower than the longest
\* candidate is what is left to abort
TabAbortsInListing ==
    [][KeyTab /\ (\A k \in 1..Len(buffer) : Width(buffer[k]) = 1) /\ status' = "panicked" =>
          /\ was_tab_previous_key
          /\ LET word_start == GetPreviousBoundary(buffer, offset)
                 cs == GetTabCompletions(Slice(buffer, word_start.val, offset).val,
                                         word_start.val = 0)
             IN  /\ Len(cs) > 1
                 /\ Listing(cs, NarrowTerminal) = Panic
                 /\ Listing(cs, WideTerminal) # Panic]_vars

-----------------------------------------------------------------------------
(* HistoryIterator from both ends *)

\* the entries next() and next_back() have yielded so far are a head of the
\* stored sequence and a tail of it in reverse, and no entry is in both
YieldedOnce ==
    iter # Idle =>
       /\ iter.front = SubSeq(history, 1, Len(iter.front))
       /\ iter.back = SubSeq(Reverse(history), 1, Len(iter.back))
       /\ Len(iter.front) + Len(iter.back) <= Len(history)

\* once every entry has been yielded, next() and next_back() yield nothing
EndsMeet ==
    iter # Idle /\ iter' # Idle /\ Len(iter.front) + Len(iter.back) >= Len(history) =>
       /\ iter'.front = iter.front
       /\ iter'.back = iter.back

\* C39: HistoryIterator is a well-behaved double-ended iterator: over every
\* interleaving of next() and next_back() each stored entry is yielded exactly
\* once, from the front in insertion order and from the back in reverse
\* order, and once the two ends meet both calls return None.
C39DoubleEndedIterator == []YieldedOnce /\ [][EndsMeet]_vars

\* an iterator used from one end only yields every entry once, in the order
\* of that end
OneEndedIteration ==
    iter # Idle /\ (iter.front = <<>> \/ iter.back = <<>>) =>
       /\ iter.front = SubSeq(history, 1, Len(iter.front))
       /\ iter.back = SubSeq(Reverse(history), 1, Len(iter.back))
       /\ Len(iter.front) + Len(iter.back) <= Len(history)

-----------------------------------------------------------------------------
(* The snapshot of the edited buffer during recall *)

\* the snapshot exists exactly while a recall index is set
SnapshotWithIndex == (buffer_bak # None) <=> (history_offset # None)

\* Down at recall index 0 finds the snapshot, puts it back and clears the
\* index and the snapshot together
LeavesRecall ==
    KeyDown /\ history_offset = Some(0) =>
       /\ status' # "panicked"
       /\ status' = "reading" =>
             /\ buffer' = buffer_bak.val
             /\ history_offset' = None
             /\ buffer_bak' = None

\* C40: in every reachable editor state buffer_bak is present exactly when
\* history_offset is set, so Down at recall index 0 always finds a snapshot
\* and never aborts, and both are cleared together when recall is left.
C40RecallConsistent == []SnapshotWithIndex /\ [][LeavesRecall]_vars

\* recall at index 0 of a non-empty list of entries, entered from a buffer
\* that held text, one Down before recall is left
C40Witness ==
    /\ status = "reading"
    /\ history_offset = Some(0)
    /\ history_entries # <<>>
    /\ buffer_bak # None
    /\ buffer_bak.val # <<>>
    /\ buffer # buffer_bak.val

====
